---------------------------- MODULE Spec2Model ----------------------------
(***************************************************************************)
(* Model of the resilient request / pagination core of the bird client.    *)
(*                                                                         *)
(*   Spec     the cursor paginator, paginateCursor                         *)
(*            (src/src/lib/twitter-client-media.ts)                        *)
(*   MutSpec  the write path: performEngagementMutation                    *)
(*            (src/src/lib/twitter-client-engagement.ts) and createTweet   *)
(*            (src/src/lib/twitter-client-posting.ts)                      *)
(*   TimedSpec MutSpec with the abort timer of fetchWithTimeout            *)
(*            (twitter-client-base.ts) firing when it stays armed          *)
(*   ClientSpec  one client call: a paginated read or a write              *)
(*   SharedSpec  createTweet calls interleaved on one client instance:     *)
(*            ensureClientUserId (twitter-client-base.ts)                  *)
(*   CfgSpec  timeout and quote depth of a command, from the flag, the     *)
(*            environment and the config files (src/src/cli/shared.ts),    *)
(*            to the client and its tweet mapper                           *)
(*   CliSpec  one run of a command: bookmarks, replies, thread,            *)
(*            user-tweets, mentions, unbookmark (src/src/commands,         *)
(*            src/src/cli/pagination.ts), with what replies and thread     *)
(*            print of the result (src/src/commands/read.ts)               *)
(*   VerifySpec  verifyTweetByFetching (twitter-client-posting.ts)         *)
(*   UploadSpec  uploadMedia (src/src/lib/twitter-client-media.ts);        *)
(*            UploadLiveSpec is UploadSpec with every request answered     *)
(*   LookupSpec  getUserIdByUsername                                       *)
(*            (src/src/lib/twitter-client-user-lookup.ts)                  *)
(*   ResumeSpec  paginateCursor called with a page limit, then again from  *)
(*            the cursor it returned, beside one call without a limit      *)
(*   ExpandSpec  the expansion of bookmarks into threads                   *)
(*            (src/src/commands/bookmarks.ts)                              *)
(*                                                                         *)
(* An optional value (cursor?: string, maxPages?: number) is modelled as a *)
(* sequence: <<>> is undefined and <<v>> is the value v.                   *)
(***************************************************************************)
EXTENDS Integers, Sequences, FiniteSets, TLC

VARIABLES
    \* ---- paginateCursor: options
    optCursor,      \* opts.cursor
    maxPages,       \* opts.maxPages
    pageDelayMs,    \* opts.pageDelayMs after defaulting
    \* ---- paginateCursor: locals
    pc,             \* "fetch" (top of the loop), "sleep", "done"
    seen,           \* seen: Set<string>
    items,          \* items: T[]
    cursor,         \* cursor: string | undefined
    pagesFetched,   \* pagesFetched
    result,         \* the value the call resolves to
    \* ---- paginateCursor: what the environment observed
    requested,      \* the cursors passed to fetchPage, in call order
    pageLog,        \* the successful pages fetchPage returned, in order
    failure,        \* the failed page fetchPage returned, if any
    sleeps,         \* number of opts.sleep calls
    \* ---- one write operation of a client (like, ..., tweet, reply)
    mOp,            \* the public method called
    mText,          \* tweet / reply: the text argument
    nodeEnvTest,    \* process.env.NODE_ENV === 'test'
    cacheQid,       \* runtimeQueryIds: the cached id of the operation, if any
    clientUserId,   \* this.clientUserId
    mpc,            \* "call", the request awaited, "done" or "threw"
    queryId,        \* let queryId
    body,           \* let body: the queryId it embeds
    mErrors,        \* data.errors handed to tryStatusUpdateFallback
    mTrace,         \* what the operation did, in order
    mResult,        \* the value the returned promise resolves to
    mEscaped,       \* the exception the returned promise rejects with
    \* ---- fetchWithTimeout
    timeoutMs,      \* this.timeoutMs
    timer,          \* the abort timer: armed or not, and how often it was
                    \* set, cleared before it fired, and fired
    \* ---- createTweet calls running on one client
    callerPc,       \* per call: "idle", "lookup" (getCurrentUser awaited),
                    \* "create" (the rest of createTweet), "done"
    lookups,        \* number of getCurrentUser calls made by ensureClientUserId
    idWrites,       \* number of assignments to this.clientUserId
    \* ---- createCliContext: configuration sources
    optTimeout,     \* --timeout, as typed
    optQuoteDepth,  \* --quote-depth, as typed
    envTimeout,     \* BIRD_TIMEOUT_MS
    envQuoteDepth,  \* BIRD_QUOTE_DEPTH
    globalFile,     \* ~/.config/bird/config.json5
    localFile,      \* ./.birdrc.json5
    config,         \* const config = loadConfig(...)
    cfgPc,          \* "load", "resolve", "construct", "map", "done"
    resolvedTimeout,    \* const timeoutMs of a command
    resolvedQuoteDepth, \* const quoteDepth of a command
    quoteDepth,     \* this.quoteDepth
    rawResult,      \* the raw tweet result handed to the mapper
    mapped,         \* the TweetData the mapper returned
    \* ---- one run of a command
    cmdName,        \* the command
    cmdAll,         \* --all
    cmdCursor,      \* --cursor
    cmdMaxPages,    \* --max-pages, as typed
    cmdDelay,       \* --delay, as typed
    cmdHandle,      \* the handle argument or --user option
    cmdArgs,        \* unbookmark: the tweet ids or urls
    cliPc,          \* "start", "credentials", "call", "exited"
    pagination,     \* const pagination = parsePaginationFlags(...)
    cliCalls,       \* the client methods called, in order
    failures,       \* unbookmark: let failures
    exitCode,       \* the code the process ended with
    \* ---- verifyTweetByFetching
    vPc,            \* "start", "sleep", "fetch1", "fetch2", "done"
    expectedText,   \* the parameter expectedText
    clock,          \* the time, in ms
    now,            \* const now = Date.now()
    tweetList,      \* the tweets findMatch last went through
    verifiedId,     \* the id the call resolves to, if any
    \* ---- the identifiers a client puts in its request headers
    clientUuid,     \* this.clientUuid
    clientDeviceId, \* this.clientDeviceId
    randomCalls,    \* number of randomUUID / randomBytes calls made so far
    sentHeaders,    \* the headers of the requests sent, in order
    \* ---- uploadMedia
    upInput,        \* input: data.byteLength, mimeType, alt
    upPc,           \* "start", the request awaited, "sleep", "done"
    mediaId,        \* const mediaId
    offset,         \* let offset of the APPEND loop
    segmentIndex,   \* let segmentIndex
    info,           \* finalizeBody.processing_info
    attempts,       \* let attempts
    slept,          \* the this.sleep calls of the polling loop: how many, and
                    \* the ms of the last one
    upLog,          \* the requests sent, in order
    answered,       \* how each request was answered, in order
    upResult,       \* the value the call resolves to
    \* ---- getUserIdByUsername
    lkUsername,     \* the parameter username
    lkPc,           \* "start", "graphql", "rest", "done"
    lkIndex,        \* the place in queryIds or in urls of the request awaited
    lastError,      \* let lastError
    lkLog,          \* the requests sent, in order
    lkAnswers,      \* the answers to them, in order
    lkResult,       \* the value the call resolves to
    \* ---- replies, thread: the result of the client call and what is made of it
    cmdJson,        \* isJson: --json or --json-full
    callResult,     \* const result
    printed,        \* what the action printed once result was there, in order
    \* ---- paginateCursor called three times against one server
    rsServer,       \* the page fetchPage delivers for each cursor
    rsLimit,        \* maxPages of the limited call
    rsRuns,         \* the three calls: each one's locals, its requests and its result
    \* ---- bookmarks: the expansion of the bookmarks into threads
    bookmarks,      \* const bookmarks = result.tweets
    expandFlags,    \* --expand-root-only, the chain filters, --thread-meta
    bmIndex,        \* let index
    bmPc,           \* "loop", "thread" (getThread awaited), "done"
    threadCache,    \* const threadCache
    threadCalls,    \* the getThread calls made, in order
    expanded        \* for each bookmark gone through, where its threadTweets came from

pagVars == <<optCursor, maxPages, pageDelayMs, pc, seen, items, cursor,
             pagesFetched, result, requested, pageLog, failure, sleeps>>

mutVars == <<mOp, mText, nodeEnvTest, cacheQid, clientUserId, mpc, queryId, body,
             mErrors, mTrace, mResult, mEscaped, timeoutMs, timer>>

conVars == <<callerPc, lookups, idWrites>>

cfgVars == <<optTimeout, optQuoteDepth, envTimeout, envQuoteDepth, globalFile,
             localFile, config, cfgPc, resolvedTimeout, resolvedQuoteDepth,
             quoteDepth, rawResult, mapped>>

cliVars == <<cmdName, cmdAll, cmdCursor, cmdMaxPages, cmdDelay, cmdHandle, cmdArgs,
             cliPc, pagination, cliCalls, failures, exitCode>>

verVars == <<vPc, expectedText, clock, now, tweetList, verifiedId>>

hdrVars == <<clientUuid, clientDeviceId, randomCalls, sentHeaders>>

upVars == <<upInput, upPc, mediaId, offset, segmentIndex, info, attempts, slept, upLog,
            answered, upResult>>

lkVars == <<lkUsername, lkPc, lkIndex, lastError, lkLog, lkAnswers, lkResult>>

outVars == <<cmdJson, callResult, printed>>

rsVars == <<rsServer, rsLimit, rsRuns>>

bmVars == <<bookmarks, expandFlags, bmIndex, bmPc, threadCache, threadCalls, expanded>>

auxVars == <<verVars, hdrVars, upVars, lkVars, outVars, rsVars, bmVars>>

extVars == <<conVars, cfgVars, cliVars, auxVars>>

vars == <<pagVars, mutVars, extVars>>

---------------------------------------------------------------------------
(* Optional values *)

None == <<>>

Some(x) == <<x>>

---------------------------------------------------------------------------
(* Bounds of the model *)

\* fetchPage is called at most this many times in one paginateCursor call
MaxFetch == 3

---------------------------------------------------------------------------
(* cli/pagination.ts : --max-pages *)

\* the raw --max-pages strings tried, as character sequences
RawFlags ==
    { <<>>, <<"x">>, <<"0">>, <<"-", "1">>, <<"1">>, <<"2">>, <<"3">>,
      <<"0", "2">>, <<"2", "x">> }

IsDigit(c) == c \in {"0", "1", "2", "3"}

DigitVal(c) == CASE c = "0" -> 0 [] c = "1" -> 1 [] c = "2" -> 2 [] c = "3" -> 3

RECURSIVE DigitPrefix(_)
\* the longest prefix of s made of digits
DigitPrefix(s) ==
    IF s = <<>> \/ ~IsDigit(Head(s)) THEN <<>>
    ELSE <<Head(s)>> \o DigitPrefix(Tail(s))

RECURSIVE DigitsValue(_, _)
DigitsValue(ds, acc) ==
    IF ds = <<>> THEN acc ELSE DigitsValue(Tail(ds), 10 * acc + DigitVal(Head(ds)))

\* Number.parseInt(raw, 10): None stands for NaN
ParseInt(s) ==
    LET neg  == s # <<>> /\ Head(s) = "-"
        rest == IF neg THEN Tail(s) ELSE s
        ds   == DigitPrefix(rest)
    IN  IF ds = <<>> THEN None
        ELSE Some(IF neg THEN 0 - DigitsValue(ds, 0) ELSE DigitsValue(ds, 0))

\* the test of line 16: the flag value is rejected
FlagRejected(value) == value = None \/ value[1] <= 0

\* parsePositiveIntFlag(raw, flagName), raw an optional string
parsePositiveIntFlag(raw) ==
    IF raw = None THEN [ok |-> TRUE, value |-> None]
    ELSE LET value == ParseInt(raw[1])
         IN  IF FlagRejected(value) THEN [ok |-> FALSE]
             ELSE [ok |-> TRUE, value |-> value]

\* the page limits a command can hand to the paginator
PageLimits ==
    { parsePositiveIntFlag(raw).value :
        raw \in { r \in {None} \cup {Some(s) : s \in RawFlags} :
                    parsePositiveIntFlag(r).ok } }

---------------------------------------------------------------------------
(* paginateCursor : data *)

\* items as fetchPage delivers them: two of them share the identity key "a"
Items == { [id |-> "a", v |-> 1], [id |-> "a", v |-> 2], [id |-> "b", v |-> 1] }

Keys == {"a", "b"}

\* opts.getKey, as every caller supplies it: the record's id
getKey(item) == item.id

Cursors == {"", "c1", "c2"}

OptCursors == {None} \cup {Some(c) : c \in Cursors}

\* opts.cursor: a fresh run, or the resumption of an earlier one
StartCursors == {None, Some("c1")}

\* the pages tried: at most as many items as there are keys, so that a page can
\* repeat a key, carry both keys in either order, or be empty
PageItems == UNION { [1..n -> Items] : n \in 0..Cardinality(Keys) }

Errors == {"e1", "e2"}

\* CursorPage<T>
SuccessPages == [success : {TRUE}, items : PageItems, cursor : OptCursors]

FailurePages == [success : {FALSE}, error : Errors]

\* pageDelayMs = 1000 when the caller gives none
DefaultPageDelayMs == 1000

---------------------------------------------------------------------------
(* paginateCursor : the loop body *)

RECURSIVE Accumulate_NoSeenAdd(_, _, _)
\* the loop with seen.add(key) left out
Accumulate_NoSeenAdd(seenIn, itemsIn, pageItems) ==
    IF pageItems = <<>> THEN [seen |-> seenIn, items |-> itemsIn]
    ELSE LET item == Head(pageItems)
         IN  IF getKey(item) \in seenIn
             THEN Accumulate_NoSeenAdd(seenIn, itemsIn, Tail(pageItems))
             ELSE Accumulate_NoSeenAdd(seenIn, Append(itemsIn, item), Tail(pageItems))

RECURSIVE Accumulate_LastWins(_, _, _)
\* the loop with a later duplicate overwriting the item it repeats
Accumulate_LastWins(seenIn, itemsIn, pageItems) ==
    IF pageItems = <<>> THEN [seen |-> seenIn, items |-> itemsIn]
    ELSE LET item == Head(pageItems)
             key  == getKey(item)
         IN  IF key \in seenIn
             THEN Accumulate_LastWins(seenIn,
                      [i \in DOMAIN itemsIn |->
                          IF getKey(itemsIn[i]) = key THEN item ELSE itemsIn[i]],
                      Tail(pageItems))
             ELSE Accumulate_LastWins(seenIn \cup {key}, Append(itemsIn, item),
                                      Tail(pageItems))

RECURSIVE Accumulate(_, _, _)
\* lines 229-236: the for loop over page.items
Accumulate(seenIn, itemsIn, pageItems) ==
    IF pageItems = <<>> THEN [seen |-> seenIn, items |-> itemsIn]
    ELSE LET item == Head(pageItems)
             key  == getKey(item)
         IN  IF key \in seenIn
             THEN Accumulate(seenIn, itemsIn, Tail(pageItems))
             ELSE Accumulate(seenIn \cup {key}, Append(itemsIn, item), Tail(pageItems))

\* !pageCursor: undefined or the empty string
Falsy(c) == c = None \/ c = Some("")

\* line 239 without the repeated-cursor test
Exhausted_NoStall(pageCursor, cur) == Falsy(pageCursor)

\* line 239 without the missing-cursor test
Exhausted_OnlyStall(pageCursor, cur) == pageCursor = cur

\* line 239: the page ends the pagination
Exhausted(pageCursor, cur) == Falsy(pageCursor) \/ pageCursor = cur

\* line 243 with > for >=
LimitReached_OffByOne(limit, fetchedCount) == limit # None /\ fetchedCount > limit[1]

\* line 243: the page limit is reached
LimitReached(limit, fetchedCount) == limit # None /\ fetchedCount >= limit[1]

\* lines 221-226 reporting the failure alone, whatever was accumulated
FailureResult_DropsPartial(page, acc, cur) == page

\* lines 221-226: what a failed page resolves the call to
FailureResult(page, acc, cur) ==
    IF Len(acc) > 0
    THEN [success |-> FALSE, error |-> page.error, items |-> acc, nextCursor |-> cur]
    ELSE page

\* no timer was ever set
NoTimer == [armed |-> FALSE, set |-> 0, cleared |-> 0, fired |-> 0]

\* no paginated call is running
PagIdle ==
    /\ optCursor = None /\ maxPages = None /\ pageDelayMs = 0 /\ pc = "idle"
    /\ seen = {} /\ items = <<>> /\ cursor = None /\ pagesFetched = 0
    /\ result = None /\ requested = <<>> /\ pageLog = <<>> /\ failure = None
    /\ sleeps = 0

\* no createTweet call was made on the client
ConIdle ==
    /\ callerPc = <<>>
    /\ lookups = 0
    /\ idWrites = 0

\* no configuration was read
CfgIdle ==
    /\ optTimeout = None /\ optQuoteDepth = None
    /\ envTimeout = None /\ envQuoteDepth = None
    /\ globalFile = None /\ localFile = None
    /\ config = None
    /\ cfgPc = "idle"
    /\ resolvedTimeout = None /\ resolvedQuoteDepth = None
    /\ quoteDepth = None
    /\ rawResult = <<>>
    /\ mapped = None

\* no command is running
CliIdle ==
    /\ cmdName = "none"
    /\ cmdAll = FALSE
    /\ cmdCursor = None /\ cmdMaxPages = None /\ cmdDelay = None
    /\ cmdHandle = None
    /\ cmdArgs = <<>>
    /\ cliPc = "idle"
    /\ pagination = None
    /\ cliCalls = <<>>
    /\ failures = 0
    /\ exitCode = None

\* verifyTweetByFetching is not running
VerIdle ==
    /\ vPc = "idle"
    /\ expectedText = <<>>
    /\ clock = 0
    /\ now = None
    /\ tweetList = <<>>
    /\ verifiedId = None

\* no client was constructed
HdrIdle ==
    /\ clientUuid = None
    /\ clientDeviceId = None
    /\ randomCalls = 0
    /\ sentHeaders = <<>>

\* no upload is running
UpIdle ==
    /\ upInput = None
    /\ upPc = "idle"
    /\ mediaId = None
    /\ offset = 0
    /\ segmentIndex = 0
    /\ info = None
    /\ attempts = 0
    /\ slept = None
    /\ upLog = <<>>
    /\ answered = <<>>
    /\ upResult = None

\* no user lookup is running
LkIdle ==
    /\ lkUsername = None
    /\ lkPc = "idle"
    /\ lkIndex = 0
    /\ lastError = None
    /\ lkLog = <<>>
    /\ lkAnswers = <<>>
    /\ lkResult = None

\* no replies or thread command has run
OutIdle ==
    /\ cmdJson = FALSE
    /\ callResult = None
    /\ printed = <<>>

\* no resumed pagination is under way
RsIdle ==
    /\ rsServer = <<>>
    /\ rsLimit = None
    /\ rsRuns = <<>>

\* no bookmark expansion is under way
BmIdle ==
    /\ bookmarks = <<>>
    /\ expandFlags = None
    /\ bmIndex = 0
    /\ bmPc = "idle"
    /\ threadCache = {}
    /\ threadCalls = <<>>
    /\ expanded = <<>>

\* every part named below but g is idle
AuxIdleExcept(g) ==
    /\ IF g = "verify" THEN TRUE ELSE VerIdle
    /\ IF g = "headers" THEN TRUE ELSE HdrIdle
    /\ IF g = "upload" THEN TRUE ELSE UpIdle
    /\ IF g = "lookup" THEN TRUE ELSE LkIdle
    /\ IF g = "output" THEN TRUE ELSE OutIdle
    /\ IF g = "resume" THEN TRUE ELSE RsIdle
    /\ IF g = "expand" THEN TRUE ELSE BmIdle

\* every part named below but g is left alone
AuxFrameExcept(g) ==
    /\ IF g = "verify" THEN TRUE ELSE UNCHANGED verVars
    /\ IF g = "headers" THEN TRUE ELSE UNCHANGED hdrVars
    /\ IF g = "upload" THEN TRUE ELSE UNCHANGED upVars
    /\ IF g = "lookup" THEN TRUE ELSE UNCHANGED lkVars
    /\ IF g = "output" THEN TRUE ELSE UNCHANGED outVars
    /\ IF g = "resume" THEN TRUE ELSE UNCHANGED rsVars
    /\ IF g = "expand" THEN TRUE ELSE UNCHANGED bmVars

ExtIdle == ConIdle /\ CfgIdle /\ CliIdle /\ AuxIdleExcept("none")

\* no write operation is running
MutIdle ==
    /\ mOp = "none"
    /\ mText = ""
    /\ nodeEnvTest = FALSE
    /\ cacheQid = None
    /\ clientUserId = None
    /\ mpc = "idle"
    /\ queryId = None
    /\ body = None
    /\ mErrors = None
    /\ mTrace = <<>>
    /\ mResult = None
    /\ mEscaped = None
    /\ timeoutMs = None
    /\ timer = NoTimer

\* the loop with the test pagesFetched > 0 of line 216 left out: the first
\* iteration sleeps too
Init_SleepsFirst ==
    /\ MutIdle
    /\ ExtIdle
    /\ optCursor \in StartCursors
    /\ maxPages \in PageLimits
    /\ pageDelayMs \in {DefaultPageDelayMs, 0}
    /\ pc = IF pageDelayMs > 0 THEN "sleep" ELSE "fetch"
    /\ seen = {}
    /\ items = <<>>
    /\ cursor = optCursor
    /\ pagesFetched = 0
    /\ result = None
    /\ requested = <<>>
    /\ pageLog = <<>>
    /\ failure = None
    /\ sleeps = 0

Init ==
    /\ MutIdle
    /\ ExtIdle
    /\ optCursor \in StartCursors
    /\ maxPages \in PageLimits
    /\ pageDelayMs \in {DefaultPageDelayMs, 0}
    /\ pc = "fetch"
    /\ seen = {}
    /\ items = <<>>
    /\ cursor = optCursor
    /\ pagesFetched = 0
    /\ result = None
    /\ requested = <<>>
    /\ pageLog = <<>>
    /\ failure = None
    /\ sleeps = 0

\* line 216-218: the delay between two pages
Sleep ==
    /\ pc = "sleep"
    /\ sleeps' = sleeps + 1
    /\ pc' = "fetch"
    /\ UNCHANGED <<optCursor, maxPages, pageDelayMs, seen, items, cursor,
                   pagesFetched, result, requested, pageLog, failure>>
    /\ UNCHANGED mutVars
    /\ UNCHANGED extVars

\* lines 220-226: fetchPage(cursor) resolves to a failure
PageFailure(page) ==
    /\ pc = "fetch"
    /\ Len(requested) < MaxFetch
    /\ requested' = Append(requested, cursor)
    /\ failure' = Some(page)
    /\ result' = Some(FailureResult(page, items, cursor))
    /\ pc' = "done"
    /\ UNCHANGED <<optCursor, maxPages, pageDelayMs, seen, items, cursor,
                   pagesFetched, pageLog, sleeps>>
    /\ UNCHANGED mutVars
    /\ UNCHANGED extVars

\* the loop with line 246 (cursor = pageCursor) left out
PageSuccess_StaleCursor(page) ==
    /\ pc = "fetch"
    /\ Len(requested) < MaxFetch
    /\ requested' = Append(requested, cursor)
    /\ pageLog' = Append(pageLog, page)
    /\ pagesFetched' = pagesFetched + 1
    /\ LET acc == Accumulate(seen, items, page.items)
       IN  /\ seen' = acc.seen
           /\ items' = acc.items
           /\ IF Exhausted(page.cursor, cursor)
              THEN /\ result' = Some([success |-> TRUE, items |-> acc.items,
                                      nextCursor |-> None])
                   /\ pc' = "done"
              ELSE IF LimitReached(maxPages, pagesFetched + 1)
              THEN /\ result' = Some([success |-> TRUE, items |-> acc.items,
                                      nextCursor |-> page.cursor])
                   /\ pc' = "done"
              ELSE /\ result' = result
                   /\ pc' = IF pageDelayMs > 0 THEN "sleep" ELSE "fetch"
    /\ UNCHANGED <<optCursor, maxPages, pageDelayMs, failure, sleeps, cursor>>
    /\ UNCHANGED mutVars
    /\ UNCHANGED extVars

\* lines 220-247: fetchPage(cursor) resolves to a page
PageSuccess(page) ==
    /\ pc = "fetch"
    /\ Len(requested) < MaxFetch
    /\ requested' = Append(requested, cursor)
    /\ pageLog' = Append(pageLog, page)
    /\ pagesFetched' = pagesFetched + 1
    /\ LET acc == Accumulate(seen, items, page.items)
       IN  /\ seen' = acc.seen
           /\ items' = acc.items
           /\ IF Exhausted(page.cursor, cursor)
              THEN /\ result' = Some([success |-> TRUE, items |-> acc.items,
                                      nextCursor |-> None])
                   /\ pc' = "done"
                   /\ cursor' = cursor
              ELSE IF LimitReached(maxPages, pagesFetched + 1)
              THEN /\ result' = Some([success |-> TRUE, items |-> acc.items,
                                      nextCursor |-> page.cursor])
                   /\ pc' = "done"
                   /\ cursor' = cursor
              ELSE /\ result' = result
                   /\ cursor' = page.cursor
                   /\ pc' = IF pageDelayMs > 0 THEN "sleep" ELSE "fetch"
    /\ UNCHANGED <<optCursor, maxPages, pageDelayMs, failure, sleeps>>
    /\ UNCHANGED mutVars
    /\ UNCHANGED extVars

FetchFails == \E page \in FailurePages : PageFailure(page)

FetchSucceeds == \E page \in SuccessPages : PageSuccess(page)

Next == Sleep \/ FetchFails \/ FetchSucceeds

Spec == Init /\ [][Next]_vars

---------------------------------------------------------------------------
(* The write path: twitter-client-engagement.ts, twitter-client-posting.ts, *)
(* and the base class they extend                                          *)

EngagementOps == {"like", "unlike", "retweet", "unretweet", "bookmark"}

PostingOps == {"tweet", "reply"}

WriteOps == EngagementOps \cup PostingOps

\* the GraphQL operation a public method addresses
OperationName(op) ==
    CASE op = "like"      -> "FavoriteTweet"
      [] op = "unlike"    -> "UnfavoriteTweet"
      [] op = "retweet"   -> "CreateRetweet"
      [] op = "unretweet" -> "DeleteRetweet"
      [] op = "bookmark"  -> "CreateBookmark"
      [] op \in PostingOps -> "CreateTweet"

OperationNames == {OperationName(op) : op \in WriteOps} \cup {"UserTweets"}

\* QUERY_IDS[operationName], the baked-in table
QUERY_IDS(opName) == <<"baked", opName>>

\* the runtime cache: empty, or holding the ids of generation g
EmptyCache == [n \in OperationNames |-> None]

LiveCache(g) == [n \in OperationNames |-> Some(<<"live", g>>)]

\* a cache that holds the id of one operation only
PartialCache ==
    [n \in OperationNames |-> IF n = "UserTweets" THEN Some(<<"live", "1">>) ELSE None]

\* getQueryId falling back to one id for every operation
getQueryId_SharedDefault(cache, opName) ==
    IF cache[opName] # None THEN cache[opName][1] ELSE QUERY_IDS("CreateTweet")

\* getQueryId: cached ?? QUERY_IDS[operationName]
getQueryId(cache, opName) ==
    IF cache[opName] # None THEN cache[opName][1] ELSE QUERY_IDS(opName)

\* what runtimeQueryIds.refresh(..., {force: true}) can do
RefreshOutcomes == {"updated", "failed"}

\* refreshQueryIds with its refresh left out
refreshQueryIds_Skipped(cache, test, outcome) == None

\* refreshQueryIds losing the cached ids when the refresh fails
refreshQueryIds_FailureClears(cache, test, outcome) ==
    IF test THEN Some(cache)
    ELSE IF outcome = "updated" THEN Some(LiveCache("2"))
    ELSE Some(EmptyCache)

\* refreshQueryIds: a no-op under NODE_ENV=test, failures swallowed.  The value
\* is the cache after the call, wrapped in Some: the call took place.
refreshQueryIds(cache, test, outcome) ==
    IF test THEN Some(cache)
    ELSE IF outcome = "updated" THEN Some(LiveCache("2"))
    ELSE Some(cache)

\* what awaiting fetchWithTimeout can give: a response with a status and a body
\* (readable or not), or a rejection (network error, abort on timeout), written
\* as status 0
Rejected == [status |-> 0, body |-> "rejected"]

\* the rejection of a fetch whose signal was aborted by the timer
Aborted == [status |-> 0, body |-> "aborted"]

\* awaiting the fetch threw: there is no response
IsRejection(resp) == resp.status = 0

\* the message of the error a rejected fetch throws
RejectionOf(resp) == IF resp = Aborted THEN "aborted" ELSE "fetch"

\* options.timeoutMs as tried: none, zero, negative, positive
Timeouts == {None, Some(0), Some(0 - 5), Some(5000)}

\* line 75: !this.timeoutMs || this.timeoutMs <= 0
DirectFetch(timeout) == timeout = None \/ timeout[1] = 0 \/ timeout[1] <= 0

\* lines 75-80: a fetch starts; the abort timer is set unless the call is direct
fetchStart(tm, timeout) ==
    IF DirectFetch(timeout) THEN tm
    ELSE [tm EXCEPT !.armed = TRUE, !.set = @ + 1]

\* the fetch settling with the timer left armed: no finally clause
fetchSettled_NoClear(tm, resp) ==
    IF resp = Aborted THEN [tm EXCEPT !.armed = FALSE, !.fired = @ + 1] ELSE tm

\* lines 81-85: the fetch settles.  The timer has fired (the abort rejected the
\* fetch), or clearTimeout in the finally clause disarms it
fetchSettled(tm, resp) ==
    IF resp = Aborted THEN [tm EXCEPT !.armed = FALSE, !.fired = @ + 1]
    ELSE IF tm.armed THEN [tm EXCEPT !.armed = FALSE, !.cleared = @ + 1]
    ELSE tm

\* the states of a write operation in which a fetch is awaited
Pending == {"attempt1", "attempt2", "attempt3", "legacy", "verify1", "verify2"}

\* the timer after a step in which a fetch settled and, if the operation goes
\* on, the next one started
TimerAfter(tm, resp, timeout, goesOn) ==
    IF goesOn THEN fetchStart(fetchSettled(tm, resp), timeout)
    ELSE fetchSettled(tm, resp)

Responses ==
    [status : {200}, body : {"data_id", "data_noid", "errors", "errors226", "unreadable"}]
    \cup [status : {404, 403}, body : {"text", "unreadable"}]

FetchOutcomes == Responses \cup {Rejected}

\* the timeline fetched by verifyTweetByFetching: holding a matching recent
\* tweet, or not
VerifyOutcomes ==
    [status : {200}, body : {"match", "nomatch", "unreadable"}]
    \cup [status : {403}, body : {"text"}]
    \cup {Rejected}

\* response.ok
Ok(status) == status >= 200 /\ status <= 299

\* response.status === 404 with any error status taken for a stale id
IsStale_AnyError(status) == ~Ok(status)

\* response.status === 404 with the test lost: no answer starts the recovery
IsStale_Never(status) == FALSE

\* response.status === 404
IsStale(status) == status = 404

\* buildBody: the JSON body, of which the model keeps the queryId
buildBody(q) == [queryId |-> q]

Texts == {"", "hi"}

\* the results of the write path
Success == [success |-> TRUE]

Created(id) == [success |-> TRUE, tweetId |-> id]

HttpError(status) == [success |-> FALSE, error |-> <<"HTTP", status>>]

ApiError(kind) == [success |-> FALSE, error |-> <<"errors", kind>>]

Thrown(what) == [success |-> FALSE, error |-> <<"exception", what>>]

NotFound == [success |-> FALSE, error |-> <<"Tweet not found after posting">>]

BothFailed(kind, fallbackError) ==
    [success |-> FALSE, error |-> <<"errors", kind, "| fallback:", fallbackError>>]

\* the events of mTrace
EvCurrentUser == [kind |-> "currentUser"]

EvResolve(opName, q) == [kind |-> "resolve", op |-> opName, qid |-> q]

\* outcome: "skipped" (NODE_ENV=test), or what runtimeQueryIds.refresh did
EvRefresh(outcome) == [kind |-> "refresh", outcome |-> outcome]

EvRequest(target, urlQid, bodyQid) ==
    [kind |-> "request", target |-> target, urlQid |-> urlQid, bodyQid |-> bodyQid]

EvResponse(resp) == [kind |-> "response", status |-> resp.status, body |-> resp.body]

EvSleep(ms) == [kind |-> "sleep", ms |-> ms]

VerifyDelayMs == 1500

\* parseResponse without the test of data.errors (lines 46-48)
EngagementOutcome_IgnoresErrors(resp) ==
    IF resp.body = "unreadable" THEN [to |-> "threw", exc |-> "body"]
    ELSE IF ~Ok(resp.status) THEN [to |-> "done", result |-> HttpError(resp.status)]
    ELSE [to |-> "done", result |-> Success]

\* engagement lines 39-51 as used at lines 79 and 83: the promise of
\* parseResponse is returned from inside the try block without await, so a
\* rejection of response.text() or response.json() is not caught at line 84
EngagementOutcome(resp) ==
    IF resp.body = "unreadable" THEN [to |-> "threw", exc |-> "body"]
    ELSE IF ~Ok(resp.status) THEN [to |-> "done", result |-> HttpError(resp.status)]
    ELSE IF resp.body \in {"errors", "errors226"}
         THEN [to |-> "done", result |-> ApiError(resp.body)]
    ELSE [to |-> "done", result |-> Success]

\* tryStatusUpdateFallback without the test for code 226 (lines 308-311)
CreateOutcome_AnyErrorFallsBack(resp, text, userId) ==
    IF resp.body = "unreadable" THEN [to |-> "done", result |-> Thrown("body")]
    ELSE IF ~Ok(resp.status) THEN [to |-> "done", result |-> HttpError(resp.status)]
    ELSE IF resp.body \in {"errors", "errors226"}
         THEN IF text # ""
              THEN [to |-> "legacy", errors |-> resp.body]
              ELSE [to |-> "done", result |-> ApiError(resp.body)]
    ELSE IF resp.body = "data_id" THEN [to |-> "done", result |-> Created("t-graphql")]
    ELSE IF text # "" /\ userId # None THEN [to |-> "verify"]
    ELSE [to |-> "done", result |-> NotFound]

\* createTweet reporting every errors list as it is, code 226 or not
CreateOutcome_NoFallback(resp, text, userId) ==
    IF resp.body = "unreadable" THEN [to |-> "done", result |-> Thrown("body")]
    ELSE IF ~Ok(resp.status) THEN [to |-> "done", result |-> HttpError(resp.status)]
    ELSE IF resp.body \in {"errors", "errors226"}
         THEN [to |-> "done", result |-> ApiError(resp.body)]
    ELSE IF resp.body = "data_id" THEN [to |-> "done", result |-> Created("t-graphql")]
    ELSE IF text # "" /\ userId # None THEN [to |-> "verify"]
    ELSE [to |-> "done", result |-> NotFound]

\* createTweet taking a 2xx answer without a tweet id for a failed write and
\* posting the status again through the legacy endpoint
CreateOutcome_NoIdFallsBack(resp, text, userId) ==
    IF resp.body = "unreadable" THEN [to |-> "done", result |-> Thrown("body")]
    ELSE IF ~Ok(resp.status) THEN [to |-> "done", result |-> HttpError(resp.status)]
    ELSE IF resp.body \in {"errors", "errors226"}
         THEN IF resp.body = "errors226" /\ text # ""
              THEN [to |-> "legacy", errors |-> resp.body]
              ELSE [to |-> "done", result |-> ApiError(resp.body)]
    ELSE IF resp.body = "data_id" THEN [to |-> "done", result |-> Created("t-graphql")]
    ELSE IF text # "" THEN [to |-> "legacy", errors |-> "errors"]
    ELSE [to |-> "done", result |-> NotFound]

\* posting lines 119-148 and 152-200: every await is inside the try block
CreateOutcome(resp, text, userId) ==
    IF resp.body = "unreadable" THEN [to |-> "done", result |-> Thrown("body")]
    ELSE IF ~Ok(resp.status) THEN [to |-> "done", result |-> HttpError(resp.status)]
    ELSE IF resp.body \in {"errors", "errors226"}
         THEN IF resp.body = "errors226" /\ text # ""
              THEN [to |-> "legacy", errors |-> resp.body]
              ELSE [to |-> "done", result |-> ApiError(resp.body)]
    ELSE IF resp.body = "data_id" THEN [to |-> "done", result |-> Created("t-graphql")]
    ELSE IF text # "" /\ userId # None THEN [to |-> "verify"]
    ELSE [to |-> "done", result |-> NotFound]

\* postStatusUpdate, lines 277-301
StatusUpdateResult(resp) ==
    IF IsRejection(resp) THEN Thrown(RejectionOf(resp))
    ELSE IF resp.body = "unreadable" THEN Thrown("body")
    ELSE IF ~Ok(resp.status) THEN HttpError(resp.status)
    ELSE IF resp.body \in {"errors", "errors226"} THEN ApiError(resp.body)
    ELSE IF resp.body = "data_id" THEN Created("t-legacy")
    ELSE NotFound

\* tryStatusUpdateFallback returning the failed fallback as it is
FallbackResult_OnlyFallback(errors, fallback) == fallback

\* tryStatusUpdateFallback, lines 319-329
FallbackResult(errors, fallback) ==
    IF fallback.success THEN fallback ELSE BothFailed(errors, fallback.error)

\* node:crypto randomUUID and randomBytes(16): the value of the n-th call made
\* to the generator; two calls are two draws
randomUUID(n) == <<"uuid", n>>

randomBytes(n) == <<"bytes", n>>

\* createTransactionId: randomBytes(16).toString('hex')
createTransactionId(n) == <<"hex", randomBytes(n)>>

\* getBaseHeaders, of which the model keeps the three identifiers; n is the
\* generator call that createTransactionId makes
getBaseHeaders(n) ==
    [ uuid |-> clientUuid[1], deviceId |-> clientDeviceId[1],
      transactionId |-> createTransactionId(n) ]

\* the number of requests in a trace
Requests(tr) == Cardinality({ i \in DOMAIN tr : tr[i].kind = "request" })

\* the requests of an operation all sent with the headers built for its first
\* request
SendHeaders_BuiltOnce ==
    /\ LET new == Requests(mTrace') - Requests(mTrace)
           h   == IF sentHeaders = <<>> THEN getBaseHeaders(randomCalls + 1)
                  ELSE sentHeaders[1]
       IN  /\ sentHeaders' = sentHeaders \o [k \in 1..new |-> h]
           /\ randomCalls' = IF sentHeaders = <<>> /\ new > 0
                             THEN randomCalls + 1 ELSE randomCalls
    /\ UNCHANGED <<clientUuid, clientDeviceId>>
    /\ UNCHANGED <<conVars, cfgVars, cliVars>>
    /\ AuxFrameExcept("headers")

\* every request the step sends goes out with headers built for it by a call
\* of getHeaders / getBaseHeaders at the request site: engagement 56, 68, 75;
\* posting 88, 108, 115, 270, 391, 458
SendHeaders ==
    /\ LET new == Requests(mTrace') - Requests(mTrace)
       IN  /\ sentHeaders' = sentHeaders \o [k \in 1..new |-> getBaseHeaders(randomCalls + k)]
           /\ randomCalls' = randomCalls + new
    /\ UNCHANGED <<clientUuid, clientDeviceId>>
    /\ UNCHANGED <<conVars, cfgVars, cliVars>>
    /\ AuxFrameExcept("headers")

MutInit ==
    /\ optCursor = None /\ maxPages = None /\ pageDelayMs = 0 /\ pc = "idle"
    /\ seen = {} /\ items = <<>> /\ cursor = None /\ pagesFetched = 0
    /\ result = None /\ requested = <<>> /\ pageLog = <<>> /\ failure = None
    /\ sleeps = 0
    /\ mOp \in WriteOps
    /\ mText \in IF mOp \in PostingOps THEN Texts ELSE {""}
    /\ nodeEnvTest \in BOOLEAN
    /\ cacheQid \in {EmptyCache, PartialCache, LiveCache("1")}
    /\ clientUserId = None
    /\ mpc = "call"
    /\ queryId = None
    /\ body = None
    /\ mErrors = None
    /\ mTrace = <<>>
    /\ mResult = None
    /\ mEscaped = None
    /\ timeoutMs \in Timeouts
    /\ timer = NoTimer
    /\ ConIdle /\ CfgIdle /\ CliIdle
    /\ AuxIdleExcept("headers")
    /\ clientUuid = Some(randomUUID(1))
    /\ clientDeviceId = Some(randomUUID(2))
    /\ randomCalls = 2
    /\ sentHeaders = <<>>

\* the operation ends, or goes on to its next request
Settle(out, tr) ==
    /\ mpc' = IF out.to = "verify" THEN "verify1" ELSE out.to
    /\ mResult' = IF out.to = "done" THEN Some(out.result) ELSE mResult
    /\ mEscaped' = IF out.to = "threw" THEN Some(out.exc) ELSE mEscaped
    /\ mErrors' = IF out.to = "legacy" THEN Some(out.errors) ELSE mErrors
    /\ mTrace' =
         IF out.to = "legacy" THEN Append(tr, EvRequest("legacy", None, None))
         ELSE IF out.to = "verify"
         THEN LET q == getQueryId(cacheQid, "UserTweets")
              IN  tr \o << EvSleep(VerifyDelayMs), EvResolve("UserTweets", q),
                           EvRequest("userTweets", Some(q), None) >>
         ELSE tr

\* lines 152-200 / 119-148 of posting, line 79 / 83 of engagement
Finalize(resp, tr) ==
    IF mOp \in EngagementOps
    THEN Settle(EngagementOutcome(resp), tr)
    ELSE Settle(CreateOutcome(resp, mText, clientUserId), tr)

\* a rejected fetch of attempts 1-3 is caught (engagement 84, posting 201)
Caught(tr, resp) == Settle([to |-> "done", result |-> Thrown(RejectionOf(resp))], tr)

\* engagement 31-58, posting 68-94: up to the first request.  cu is what
\* getCurrentUser gives when ensureClientUserId has to ask
Call(cu) ==
    /\ mpc = "call"
    /\ LET lookup == mOp \in PostingOps /\ ~nodeEnvTest /\ clientUserId = None
           q      == getQueryId(cacheQid, OperationName(mOp))
       IN  /\ clientUserId' = IF lookup /\ cu = "found" THEN Some("u1") ELSE clientUserId
           /\ queryId' = Some(q)
           /\ body' = Some(buildBody(q))
           /\ mTrace' = (IF lookup THEN <<EvCurrentUser>> ELSE <<>>)
                        \o << EvResolve(OperationName(mOp), q),
                              EvRequest("operation", Some(q), Some(buildBody(q))) >>
    /\ mpc' = "attempt1"
    /\ timer' = fetchStart(timer, timeoutMs)
    /\ UNCHANGED <<mOp, mText, nodeEnvTest, cacheQid, mErrors, mResult, mEscaped,
                   timeoutMs>>
    /\ UNCHANGED pagVars
    /\ SendHeaders

\* the retry with the body of the first request sent again: body = buildBody()
\* of engagement line 63 / posting line 103 left out
Retry_StaleBody(tr, refreshed, outcome) ==
    LET cache2 == IF refreshed = None THEN cacheQid ELSE refreshed[1]
        q      == getQueryId(cache2, OperationName(mOp))
        did    == IF nodeEnvTest THEN "skipped" ELSE outcome
    IN  /\ cacheQid' = cache2
        /\ queryId' = Some(q)
        /\ body' = body
        /\ mTrace' = tr \o (IF refreshed = None THEN <<>> ELSE <<EvRefresh(did)>>)
                        \o << EvResolve(OperationName(mOp), q),
                              EvRequest("operation", Some(q), body) >>
        /\ mpc' = "attempt2"
        /\ UNCHANGED <<mErrors, mResult, mEscaped>>

\* engagement 60-70, posting 99-110: after a 404, refresh, resolve again,
\* rebuild URL and body, and send the second request
Retry(tr, refreshed, outcome) ==
    LET cache2 == IF refreshed = None THEN cacheQid ELSE refreshed[1]
        q      == getQueryId(cache2, OperationName(mOp))
        did    == IF nodeEnvTest THEN "skipped" ELSE outcome
    IN  /\ cacheQid' = cache2
        /\ queryId' = Some(q)
        /\ body' = Some(buildBody(q))
        /\ mTrace' = tr \o (IF refreshed = None THEN <<>> ELSE <<EvRefresh(did)>>)
                        \o << EvResolve(OperationName(mOp), q),
                              EvRequest("operation", Some(q), Some(buildBody(q))) >>
        /\ mpc' = "attempt2"
        /\ UNCHANGED <<mErrors, mResult, mEscaped>>

\* the first request settles
Attempt1Responds(resp, outcome) ==
    /\ mpc = "attempt1"
    /\ LET tr == Append(mTrace, EvResponse(resp))
       IN  IF IsRejection(resp)
           THEN Caught(tr, resp) /\ UNCHANGED <<cacheQid, queryId, body>>
           ELSE IF IsStale(resp.status)
           THEN Retry(tr, refreshQueryIds(cacheQid, nodeEnvTest, outcome), outcome)
           ELSE Finalize(resp, tr) /\ UNCHANGED <<cacheQid, queryId, body>>
    /\ timer' = TimerAfter(timer, resp, timeoutMs, mpc' \in Pending)
    /\ UNCHANGED <<mOp, mText, nodeEnvTest, clientUserId, timeoutMs>>
    /\ UNCHANGED pagVars
    /\ SendHeaders

\* the second request settles: engagement 72-83, posting 112-118, 152-200
Attempt2Responds(resp) ==
    /\ mpc = "attempt2"
    /\ LET tr == Append(mTrace, EvResponse(resp))
       IN  IF IsRejection(resp) THEN Caught(tr, resp)
           ELSE IF IsStale(resp.status)
           THEN /\ mTrace' = Append(tr, EvRequest("generic", None, body))
                /\ mpc' = "attempt3"
                /\ UNCHANGED <<mErrors, mResult, mEscaped>>
           ELSE Finalize(resp, tr)
    /\ timer' = TimerAfter(timer, resp, timeoutMs, mpc' \in Pending)
    /\ UNCHANGED <<mOp, mText, nodeEnvTest, clientUserId, cacheQid, queryId, body,
                   timeoutMs>>
    /\ UNCHANGED pagVars
    /\ SendHeaders

\* the request to the generic endpoint settles: engagement 79, posting 119-148
Attempt3Responds(resp) ==
    /\ mpc = "attempt3"
    /\ LET tr == Append(mTrace, EvResponse(resp))
       IN  IF IsRejection(resp) THEN Caught(tr, resp) ELSE Finalize(resp, tr)
    /\ timer' = TimerAfter(timer, resp, timeoutMs, mpc' \in Pending)
    /\ UNCHANGED <<mOp, mText, nodeEnvTest, clientUserId, cacheQid, queryId, body,
                   timeoutMs>>
    /\ UNCHANGED pagVars
    /\ SendHeaders

\* the legacy statuses/update request settles: posting 267-301, 319-329
LegacyResponds(resp) ==
    /\ mpc = "legacy"
    /\ Settle([to |-> "done",
               result |-> FallbackResult(mErrors[1], StatusUpdateResult(resp))],
              Append(mTrace, EvResponse(resp)))
    /\ timer' = TimerAfter(timer, resp, timeoutMs, mpc' \in Pending)
    /\ UNCHANGED <<mOp, mText, nodeEnvTest, clientUserId, cacheQid, queryId, body,
                   timeoutMs>>
    /\ UNCHANGED pagVars
    /\ SendHeaders

\* verifyTweetByFetching giving up after the first timeline fetch, match or not
Verify1Responds_NoRetry(resp) ==
    /\ mpc = "verify1"
    /\ LET tr == Append(mTrace, EvResponse(resp))
       IN  IF resp.body = "match"
           THEN Settle([to |-> "done", result |-> Created("t-verified")], tr)
           ELSE Settle([to |-> "done", result |-> NotFound], tr)
    /\ timer' = TimerAfter(timer, resp, timeoutMs, mpc' \in Pending)
    /\ UNCHANGED <<mOp, mText, nodeEnvTest, clientUserId, cacheQid, queryId, body,
                   timeoutMs>>
    /\ UNCHANGED pagVars
    /\ SendHeaders

\* the first timeline fetch of verifyTweetByFetching settles: posting 389-459
Verify1Responds(resp) ==
    /\ mpc = "verify1"
    /\ LET tr == Append(mTrace, EvResponse(resp))
       IN  IF resp.body = "match"
           THEN Settle([to |-> "done", result |-> Created("t-verified")], tr)
           ELSE IF resp.body = "nomatch"
           THEN /\ mTrace' = tr \o << EvSleep(VerifyDelayMs),
                                     EvRequest("userTweets", mTrace[Len(mTrace)].urlQid, None) >>
                /\ mpc' = "verify2"
                /\ UNCHANGED <<mErrors, mResult, mEscaped>>
           ELSE Settle([to |-> "done", result |-> NotFound], tr)
    /\ timer' = TimerAfter(timer, resp, timeoutMs, mpc' \in Pending)
    /\ UNCHANGED <<mOp, mText, nodeEnvTest, clientUserId, cacheQid, queryId, body,
                   timeoutMs>>
    /\ UNCHANGED pagVars
    /\ SendHeaders

\* the second timeline fetch settles: posting 460-471, 140-148, 189-200
Verify2Responds(resp) ==
    /\ mpc = "verify2"
    /\ LET tr == Append(mTrace, EvResponse(resp))
       IN  IF resp.body = "match"
           THEN Settle([to |-> "done", result |-> Created("t-verified")], tr)
           ELSE Settle([to |-> "done", result |-> NotFound], tr)
    /\ timer' = TimerAfter(timer, resp, timeoutMs, mpc' \in Pending)
    /\ UNCHANGED <<mOp, mText, nodeEnvTest, clientUserId, cacheQid, queryId, body,
                   timeoutMs>>
    /\ UNCHANGED pagVars
    /\ SendHeaders

MutCall == \E cu \in {"found", "failed"} : Call(cu)

MutAttempt1 == \E resp \in FetchOutcomes : \E o \in RefreshOutcomes : Attempt1Responds(resp, o)

MutAttempt2 == \E resp \in FetchOutcomes : Attempt2Responds(resp)

MutAttempt3 == \E resp \in FetchOutcomes : Attempt3Responds(resp)

MutLegacy == \E resp \in FetchOutcomes : LegacyResponds(resp)

MutVerify1 == \E resp \in VerifyOutcomes : Verify1Responds(resp)

MutVerify2 == \E resp \in VerifyOutcomes : Verify2Responds(resp)

\* line 80: the timer fires before the awaited fetch has settled;
\* controller.abort() makes the fetch reject
MutTimeout ==
    /\ timer.armed
    /\ \/ Attempt1Responds(Aborted, "failed")
       \/ Attempt2Responds(Aborted)
       \/ Attempt3Responds(Aborted)
       \/ LegacyResponds(Aborted)
       \/ Verify1Responds(Aborted)
       \/ Verify2Responds(Aborted)

MutNext ==
    MutCall \/ MutAttempt1 \/ MutAttempt2 \/ MutAttempt3 \/ MutLegacy
        \/ MutVerify1 \/ MutVerify2 \/ MutTimeout

MutSpec == MutInit /\ [][MutNext]_vars

\* the write path where a timer that stays armed fires: the network may stay
\* silent for ever, setTimeout does not
TimedSpec == MutSpec /\ WF_vars(MutTimeout)

\* one public operation of a client: a paginated read or a write
ClientInit == Init \/ MutInit

ClientNext == Next \/ MutNext

ClientSpec == ClientInit /\ [][ClientNext]_vars

---------------------------------------------------------------------------
(* What a paginateCursor call has seen and returned *)

RECURSIVE Flatten(_)
\* the items of the pages of log, concatenated in fetch order
Flatten(log) == IF log = <<>> THEN <<>> ELSE Head(log).items \o Flatten(Tail(log))

\* the positions of s that hold the first occurrence of their key
FirstOccurrences(s) ==
    { i \in DOMAIN s : \A j \in 1..(i - 1) : getKey(s[j]) # getKey(s[i]) }

\* s with every later occurrence of an already-seen key removed
DedupFirst(s) ==
    LET F[i \in 0..Len(s)] ==
            IF i = 0 THEN <<>>
            ELSE IF i \in FirstOccurrences(s) THEN Append(F[i - 1], s[i])
            ELSE F[i - 1]
    IN  F[Len(s)]

DistinctKeys(s) ==
    \A i, j \in DOMAIN s : i # j => getKey(s[i]) # getKey(s[j])

Done == pc = "done"

Returned == result[1]

HasItems == result # None /\ "items" \in DOMAIN result[1]

\* a cursor that lets the pagination go on: non-empty and not the one requested
Fresh(pageCursor, cur) == ~Falsy(pageCursor) /\ pageCursor # cur

\* page i only repeats keys that pages 1..i-1 delivered
OnlyDuplicates(i) ==
    /\ pageLog[i].items # <<>>
    /\ \A k \in DOMAIN pageLog[i].items :
          \E j \in 1..(i - 1) : \E l \in DOMAIN pageLog[j].items :
             getKey(pageLog[j].items[l]) = getKey(pageLog[i].items[k])

\* C1: the accumulated items, and the items of every result (success or partial
\* failure), never hold two items with the same identity key.
C1_NoDuplicateKeys ==
    /\ DistinctKeys(items)
    /\ HasItems => DistinctKeys(Returned.items)

\* a partial failure after a key recurred inside one page and across two pages
C1_Witness ==
    /\ Done /\ HasItems /\ failure # None
    /\ \E i \in DOMAIN pageLog : ~DistinctKeys(pageLog[i].items)
    /\ \E i, j \in DOMAIN pageLog :
          /\ i < j
          /\ \E k \in DOMAIN pageLog[i].items : \E l \in DOMAIN pageLog[j].items :
                getKey(pageLog[i].items[k]) = getKey(pageLog[j].items[l])

\* C2: the items are the concatenation of the successfully fetched pages, in
\* fetch order, with every later occurrence of a seen key removed; the first
\* occurrence is neither moved nor replaced.
C2_FirstEncounterOrder ==
    /\ items = DedupFirst(Flatten(pageLog))
    /\ HasItems => Returned.items = DedupFirst(Flatten(pageLog))

\* a success over two pages where page 2 repeats a key of page 1 with another
\* payload, ahead of a new key
C2_Witness ==
    /\ Done /\ result # None /\ Returned.success
    /\ Len(pageLog) >= 2
    /\ pageLog[1].items # <<>>
    /\ Len(items) = 2
    /\ \E k \in DOMAIN pageLog[2].items :
          /\ getKey(pageLog[2].items[k]) = getKey(pageLog[1].items[1])
          /\ pageLog[2].items[k] # pageLog[1].items[1]
          /\ k < Len(pageLog[2].items)

\* C3: a page that returns the non-empty cursor it was requested with (so two
\* consecutive pages returned the same token) is the last page fetched, and
\* the call succeeds with nextCursor undefined, also at the page limit.
C3_StallStops ==
    \A i \in DOMAIN pageLog :
        (~Falsy(pageLog[i].cursor) /\ pageLog[i].cursor = requested[i])
        => /\ i = Len(pageLog)
           /\ Len(requested) = i
           /\ Done
           /\ Returned.success
           /\ Returned.nextCursor = None

\* pages 1 and 2 return the same token, and the limit is reached on page 2
C3_Witness ==
    /\ Len(pageLog) = 2
    /\ ~Falsy(pageLog[2].cursor)
    /\ pageLog[1].cursor = pageLog[2].cursor
    /\ maxPages = Some(2)
    /\ Done

\* C4: a page without next cursor is the last page fetched and the call
\* returns success with all accumulated items and nextCursor undefined; one
\* page with one item and no cursor gives exactly {true, [item], undefined}.
C4_NoCursorStops ==
    \A i \in DOMAIN pageLog :
        pageLog[i].cursor = None
        => /\ i = Len(pageLog)
           /\ Len(requested) = i
           /\ Done
           /\ result = Some([success |-> TRUE, items |-> items, nextCursor |-> None])
           /\ (i = 1 /\ Len(pageLog[1].items) = 1)
                 => Returned.items = pageLog[1].items

\* scenario A: a single page with one item and no cursor
C4_Witness ==
    /\ Len(pageLog) = 1
    /\ Len(pageLog[1].items) = 1
    /\ pageLog[1].cursor = None
    /\ Done

\* C5: under a page limit N at most N fetches occur, and when the Nth page
\* carries a fresh cursor the call succeeds with that cursor as nextCursor.
C5_PageLimit ==
    maxPages # None =>
        LET N == maxPages[1]
        IN  /\ Len(requested) <= N
            /\ (Len(pageLog) = N /\ Fresh(pageLog[N].cursor, requested[N]))
                 => /\ Done
                    /\ Returned.success
                    /\ Returned.nextCursor = pageLog[N].cursor

\* limit 2, and page 2 carries a fresh cursor
C5_Witness ==
    /\ maxPages = Some(2)
    /\ Len(pageLog) = 2
    /\ Fresh(pageLog[2].cursor, requested[2])
    /\ Done

\* C6: a page after the first that only repeats already-seen items ends the
\* pagination, fresh cursor or not: no further fetch, success, nextCursor
\* undefined.
C6_DuplicatePageStops ==
    \A i \in 2..Len(pageLog) :
        OnlyDuplicates(i)
        => /\ i = Len(pageLog)
           /\ Done
           /\ Returned.success
           /\ Returned.nextCursor = None

\* C7: after a failed fetch the call returns success false: with the error,
\* the accumulated items and the cursor passed to the failed fetch when any
\* item was accumulated, and the failed page verbatim otherwise.
C7_FailureShape ==
    failure # None =>
        LET page == failure[1]
            used == requested[Len(requested)]
            got  == DedupFirst(Flatten(pageLog))
        IN  /\ Done
            /\ Len(requested) = Len(pageLog) + 1
            /\ IF got # <<>>
               THEN result = Some([success |-> FALSE, error |-> page.error,
                                   items |-> got, nextCursor |-> used])
               ELSE result = Some([success |-> FALSE, error |-> page.error])

\* the second fetch fails after the first delivered an item and a cursor
C7_Witness ==
    /\ failure # None
    /\ Len(pageLog) = 1
    /\ items # <<>>
    /\ requested[2] = Some("c2")

---------------------------------------------------------------------------
(* What a write operation did and returned *)

\* the positions of mTrace that hold an event of one of the kinds
EventsOf(kinds) == { i \in DOMAIN mTrace : mTrace[i].kind \in kinds }

\* the positions of the GraphQL write requests (operation URL or generic endpoint)
GraphqlWrites ==
    { i \in EventsOf({"request"}) : mTrace[i].target \in {"operation", "generic"} }

\* the position of the k-th element of the set of positions S
Nth(S, k) == CHOOSE i \in S : Cardinality({ j \in S : j < i }) = k - 1

\* the request at position i has been answered (or its fetch has rejected)
Answered(i) == i + 1 <= Len(mTrace) /\ mTrace[i + 1].kind = "response"

\* the answer to the request at position i
Answer(i) == mTrace[i + 1]

\* the k-th GraphQL write request has been answered
WriteAnswered(k) ==
    Cardinality(GraphqlWrites) >= k /\ Answered(Nth(GraphqlWrites, k))

WriteAnswer(k) == Answer(Nth(GraphqlWrites, k))

\* a body that was read and is a 2xx JSON body without an errors list
CleanBody(ev) == Ok(ev.status) /\ ev.body \in {"data_id", "data_noid"}

\* the last thing the operation saw was a failed step: a rejected fetch, or a
\* body that could not be read (the body of a 404 is not read on attempts 1, 2)
StepFailed ==
    /\ mTrace # <<>>
    /\ mTrace[Len(mTrace)].kind = "response"
    /\ \/ mTrace[Len(mTrace)].status = 0
       \/ mTrace[Len(mTrace)].body = "unreadable"

\* C8: no write operation lets an exception escape; when a fetch or the
\* reading of a body fails, the operation resolves to success false with an
\* error.
C8_NoExceptionEscapes ==
    /\ mEscaped = None
    /\ mpc # "threw"
    /\ StepFailed => (mpc = "done" /\ ~mResult[1].success /\ "error" \in DOMAIN mResult[1])

\* C9: the k-th GraphQL write request of a call is sent only after the one
\* before it returned 404; the first two go to the operation URL, the third to
\* the generic endpoint with the body of the second; there is no fourth.
C9_RecoveryChain ==
    /\ Cardinality(GraphqlWrites) <= 3
    /\ \A k \in 1..Cardinality(GraphqlWrites) :
          LET i == Nth(GraphqlWrites, k)
          IN  /\ k <= 2 => mTrace[i].target = "operation"
              /\ k >= 2 => /\ WriteAnswered(k - 1)
                           /\ WriteAnswer(k - 1).status = 404
              /\ k = 3 => /\ mTrace[i].target = "generic"
                          /\ mTrace[i].bodyQid = mTrace[Nth(GraphqlWrites, 2)].bodyQid
    /\ (WriteAnswered(3) /\ mOp \in EngagementOps) => mpc \in {"done", "threw"}
    /\ (WriteAnswered(3) /\ mOp \in PostingOps) => mpc \in {"done", "legacy", "verify1", "verify2"}

\* a tweet whose three attempts all returned 404
C9_Witness ==
    /\ mOp = "tweet"
    /\ WriteAnswered(3)
    /\ WriteAnswer(3).status = 404
    /\ mpc = "done"

\* the refresh and the re-resolution sit between the first answer and the
\* second request, and the refresh is called once if the first answer is a
\* 404 and never otherwise
RefreshDiscipline ==
    WriteAnswered(1) =>
        LET f == Nth(GraphqlWrites, 1) + 1
        IN  IF mTrace[f].status = 404
            THEN /\ EventsOf({"refresh"}) = {f + 1}
                 /\ mTrace[f + 2] = EvResolve(OperationName(mOp), mTrace[f + 3].urlQid[1])
                 /\ mTrace[f + 3].kind = "request"
                 /\ mTrace[f + 3].target = "operation"
                 /\ mTrace[f + 3].urlQid[1] = getQueryId(cacheQid, OperationName(mOp))
            ELSE EventsOf({"refresh"}) = {}

\* the retry was answered 2xx with a body free of errors
CleanRetry == WriteAnswered(2) /\ CleanBody(WriteAnswer(2))

TwoFetchesAndSuccess ==
    /\ mpc = "done"
    /\ Cardinality(EventsOf({"request"})) = 2
    /\ mResult[1].success

\* C10 as claimed: refresh once after a first 404 and never otherwise, and a
\* retry answered 2xx without errors ends any mutation after exactly 2
\* fetches with success true.
C10_AsClaimed ==
    /\ EventsOf({"refresh"}) = {} \/ WriteAnswered(1)
    /\ RefreshDiscipline
    /\ CleanRetry => TwoFetchesAndSuccess

\* C10 (amended): as claimed, where for tweet and reply the body of the retry
\* must also carry the id of the new tweet.
C10_RefreshOnceThenRetry ==
    /\ EventsOf({"refresh"}) = {} \/ WriteAnswered(1)
    /\ RefreshDiscipline
    /\ (CleanRetry /\ (mOp \in EngagementOps \/ WriteAnswer(2).body = "data_id"))
         => TwoFetchesAndSuccess

\* a like whose first attempt returned 404, whose refresh changed the id, and
\* whose retry succeeded
C10_Witness ==
    /\ mOp = "like"
    /\ CleanRetry
    /\ mTrace[Nth(GraphqlWrites, 2)].urlQid # mTrace[Nth(GraphqlWrites, 1)].urlQid
    /\ mpc = "done"
    /\ mResult = Some(Success)

\* the first two GraphQL write requests were both answered 404
TwoNotFound ==
    /\ WriteAnswered(2)
    /\ WriteAnswer(1).status = 404
    /\ WriteAnswer(2).status = 404

\* the answer is 2xx, free of errors and, for tweet and reply, carries the id
\* of the new tweet
Succeeds(ev) == CleanBody(ev) /\ (mOp \in EngagementOps \/ ev.body = "data_id")

\* the operation ended with success true after exactly n recorded fetches
EndsInSuccessAfter(n) ==
    /\ mpc = "done"
    /\ Cardinality(EventsOf({"request"})) = n
    /\ mResult[1].success

\* C11 as claimed: a write request answered 404 twice in a row ends after
\* exactly 2 recorded fetches with success true.
C11_AsClaimed == TwoNotFound => EndsInSuccessAfter(2)

\* C11 (amended): a first 404 is always followed by one forced refresh and a
\* second attempt; a write request answered 404 twice in a row makes a third
\* attempt, against the generic endpoint, whose answer is final (3 fetches and
\* success true when it succeeds); 2 fetches and success true is the outcome
\* when only the first attempt is answered 404 and the retry succeeds.
C11_TwoNotFoundThenGeneric ==
    /\ (WriteAnswered(1) /\ WriteAnswer(1).status = 404)
         => /\ Cardinality(GraphqlWrites) >= 2
            /\ EventsOf({"refresh"}) = {Nth(GraphqlWrites, 1) + 2}
            /\ Nth(GraphqlWrites, 2) > Nth(GraphqlWrites, 1) + 2
    /\ TwoNotFound
         => /\ Cardinality(GraphqlWrites) = 3
            /\ mTrace[Nth(GraphqlWrites, 3)].target = "generic"
            /\ Cardinality(EventsOf({"refresh"})) = 1
            /\ (WriteAnswered(3) /\ Succeeds(WriteAnswer(3))) => EndsInSuccessAfter(3)
            /\ (WriteAnswered(3) /\ ~Ok(WriteAnswer(3).status)) =>
                  (mpc \in {"done", "threw"} /\ Cardinality(EventsOf({"request"})) = 3)
    /\ (WriteAnswered(2) /\ WriteAnswer(1).status = 404 /\ Succeeds(WriteAnswer(2)))
         => EndsInSuccessAfter(2)

\* a like answered 404 twice, whose request to the generic endpoint succeeded
C11_Witness ==
    /\ mOp = "like"
    /\ TwoNotFound
    /\ WriteAnswered(3)
    /\ Succeeds(WriteAnswer(3))
    /\ mResult = Some(Success)

\* the GraphQL write requests answered with an HTTP error status other than 404
ErrorAnswers ==
    { k \in 1..Cardinality(GraphqlWrites) :
        /\ WriteAnswered(k)
        /\ WriteAnswer(k).status # 0
        /\ ~Ok(WriteAnswer(k).status)
        /\ WriteAnswer(k).status # 404 }

\* C12: an HTTP error status other than 404 on any attempt of a mutation is
\* terminal: nothing is requested or refreshed after it, and the operation
\* resolves to success false, with the error HTTP <status>: <body prefix>
\* (the prefix being there when the body could be read).
C12_OtherStatusIsTerminal ==
    \A k \in ErrorAnswers :
        /\ Len(mTrace) = Nth(GraphqlWrites, k) + 1
        /\ mpc = "done"
        /\ ~mResult[1].success
        /\ WriteAnswer(k).body = "text" => mResult = Some(HttpError(WriteAnswer(k).status))

\* the GraphQL write requests answered 2xx with a non-empty errors list
ErrorListAnswers ==
    { k \in 1..Cardinality(GraphqlWrites) :
        /\ WriteAnswered(k)
        /\ Ok(WriteAnswer(k).status)
        /\ WriteAnswer(k).body \in {"errors", "errors226"} }

\* the errors list makes createTweet try the legacy write: it holds code 226
\* and the tweet has a text
FallbackEligible(ev) ==
    mOp \in PostingOps /\ ev.body = "errors226" /\ mText # ""

\* s starts with the sequence p
StartsWith(s, p) == Len(s) >= Len(p) /\ SubSeq(s, 1, Len(p)) = p

\* C13 as claimed: a 2xx answer with a non-empty errors list always ends the
\* operation with success false and the joined messages as error, and an
\* engagement mutation succeeds only on a 2xx answer without errors.
C13_AsClaimed ==
    /\ \A k \in ErrorListAnswers :
          mpc = "done" => mResult = Some(ApiError(WriteAnswer(k).body))
    /\ (mOp \in EngagementOps /\ mpc = "done" /\ mResult[1].success)
          => CleanBody(mTrace[Len(mTrace)])

\* C13 (amended): a 2xx answer with a non-empty errors list ends an
\* engagement mutation, and a tweet or reply not eligible for the legacy
\* fallback, with success false and the joined messages; a tweet or reply with
\* a text whose list holds code 226 goes on to the legacy write and ends with
\* the legacy tweet id, or with success false and an error that starts with
\* the joined messages.  An engagement mutation succeeds only on a 2xx answer
\* without errors.
C13_ErrorListIsFailure ==
    /\ \A k \in ErrorListAnswers :
          LET i  == Nth(GraphqlWrites, k) + 1
              ev == mTrace[i]
          IN  IF FallbackEligible(ev)
              THEN /\ mpc \in {"legacy", "done"}
                   /\ mTrace[i + 1] = EvRequest("legacy", None, None)
                   /\ mpc = "done" =>
                        IF mResult[1].success
                        THEN mResult = Some(Created("t-legacy"))
                        ELSE /\ StartsWith(mResult[1].error, ApiError(ev.body).error)
                             /\ mResult # Some(ApiError(ev.body))
              ELSE /\ mpc = "done"
                   /\ Len(mTrace) = i
                   /\ mResult = Some(ApiError(ev.body))
    /\ (mOp \in EngagementOps /\ mpc = "done" /\ mResult[1].success)
          => CleanBody(mTrace[Len(mTrace)])

\* a tweet answered 2xx with code 226 that the legacy write then created
C13_Witness ==
    /\ mOp = "tweet"
    /\ ErrorListAnswers # {}
    /\ mpc = "done"
    /\ mResult = Some(Created("t-legacy"))

\* the positions of the requests to the legacy statuses/update endpoint
LegacyRequests ==
    { i \in EventsOf({"request"}) : mTrace[i].target = "legacy" }

\* a create-tweet call was answered 2xx with an errors list holding code 226
Got226 ==
    /\ mOp \in PostingOps
    /\ \E k \in ErrorListAnswers : WriteAnswer(k).body = "errors226"

\* the legacy write at position i was answered with the id of a new tweet
LegacySucceeded(i) ==
    /\ Answered(i)
    /\ Ok(Answer(i).status)
    /\ Answer(i).body = "data_id"

ResponseOf(ev) == [status |-> ev.status, body |-> ev.body]

\* C15: when the GraphQL create fails with code 226 and the legacy write fails
\* too, the result is success false and its error is the GraphQL error
\* messages followed by the legacy write's error.
C15_BothErrorsReported ==
    \A i \in LegacyRequests :
        (Answered(i) /\ ~LegacySucceeded(i))
        => /\ Got226
           /\ mpc = "done"
           /\ ~mResult[1].success
           /\ StartsWith(mResult[1].error, ApiError("errors226").error)
           /\ Len(mResult[1].error) = Len(ApiError("errors226").error) + 2
           /\ mResult[1].error[Len(mResult[1].error)]
                 = StatusUpdateResult(ResponseOf(Answer(i))).error
           /\ ~StatusUpdateResult(ResponseOf(Answer(i))).success

\* a tweet answered with code 226 whose legacy write was answered 403
C15_Witness ==
    /\ mOp = "tweet"
    /\ \E i \in LegacyRequests : Answered(i) /\ Answer(i).status = 403
    /\ mpc = "done"
    /\ mResult = Some(BothFailed("errors226", HttpError(403).error))

\* C16: a request to the legacy endpoint is issued only by tweet and reply and
\* only right after a GraphQL answer whose errors list holds code 226; an
\* errors list without code 226 ends the operation; like, unlike, retweet,
\* unretweet and bookmark never issue a legacy request, code 226 or not.
C16_LegacyOnlyAfter226 ==
    /\ \A i \in LegacyRequests :
          /\ mOp \in PostingOps
          /\ i - 2 \in GraphqlWrites
          /\ mTrace[i - 1].kind = "response"
          /\ Ok(mTrace[i - 1].status)
          /\ mTrace[i - 1].body = "errors226"
    /\ \A k \in ErrorListAnswers :
          (WriteAnswer(k).body = "errors" \/ mOp \in EngagementOps)
          => /\ Len(mTrace) = Nth(GraphqlWrites, k) + 1
             /\ mpc = "done"
             /\ mResult = Some(ApiError(WriteAnswer(k).body))
    /\ mOp \in EngagementOps => LegacyRequests = {}

\* a retweet answered with code 226: the errors are the result
C16_Witness ==
    /\ mOp = "retweet"
    /\ \E k \in ErrorListAnswers : WriteAnswer(k).body = "errors226"
    /\ mpc = "done"
    /\ LegacyRequests = {}

\* the positions of the timeline fetches of verifyTweetByFetching
VerifyRequests ==
    { i \in EventsOf({"request"}) : mTrace[i].target = "userTweets" }

\* the create was answered 2xx without errors and without a tweet id
NeedsVerification ==
    /\ mOp \in PostingOps
    /\ \E k \in 1..Cardinality(GraphqlWrites) :
          /\ WriteAnswered(k)
          /\ Ok(WriteAnswer(k).status)
          /\ WriteAnswer(k).body = "data_noid"

\* the timeline fetch at position i was answered 2xx with a readable timeline
\* that holds no matching tweet
NoMatch(i) == Answered(i) /\ Ok(Answer(i).status) /\ Answer(i).body = "nomatch"

\* the timeline fetch at position i was answered with a matching tweet
Match(i) == Answered(i) /\ Ok(Answer(i).status) /\ Answer(i).body = "match"

GaveUp == mpc = "done" /\ mResult = Some(NotFound)

\* C17 as claimed: after a create without errors and without tweet id the
\* client waits and fetches the timeline, never gives up before the second
\* verification attempt and never makes a third.
C17_AsClaimed ==
    NeedsVerification =>
        /\ Cardinality(VerifyRequests) \in {1, 2}
        /\ \A i \in VerifyRequests : \E j \in {i - 1, i - 2} : mTrace[j] = EvSleep(VerifyDelayMs)
        /\ GaveUp => Cardinality(VerifyRequests) = 2

\* C17 (amended): after a create without errors and without tweet id, a
\* client that knows its user id and posted a non-empty text waits, fetches
\* the timeline and looks for a match; when that fetch is answered 2xx with a
\* readable timeline without match it waits again and fetches once more, and
\* gives up after that; when the first fetch fails it gives up at once; there
\* is never a third fetch.  Without user id or text no verification is made.
C17_VerifyAtMostTwice ==
    NeedsVerification =>
        IF mText = "" \/ clientUserId = None
        THEN VerifyRequests = {} /\ GaveUp
        ELSE LET v1 == Nth(VerifyRequests, 1)
                 v2 == Nth(VerifyRequests, 2)
             IN  /\ Cardinality(VerifyRequests) \in {1, 2}
                 /\ mTrace[v1 - 2] = EvSleep(VerifyDelayMs)
                 /\ Answered(v1) =>
                       IF Match(v1)
                       THEN /\ mpc = "done" /\ mResult = Some(Created("t-verified"))
                            /\ Cardinality(VerifyRequests) = 1
                       ELSE IF NoMatch(v1)
                       THEN /\ Cardinality(VerifyRequests) = 2
                            /\ v2 = v1 + 3
                            /\ mTrace[v2 - 1] = EvSleep(VerifyDelayMs)
                            /\ Answered(v2) =>
                                  /\ Len(mTrace) = v2 + 1
                                  /\ IF Match(v2)
                                     THEN mpc = "done" /\ mResult = Some(Created("t-verified"))
                                     ELSE GaveUp
                            /\ ~Answered(v2) => mpc = "verify2"
                       ELSE GaveUp /\ Cardinality(VerifyRequests) = 1
                 /\ ~Answered(v1) => mpc = "verify1"

\* a tweet created without id, verified twice without match, and given up
C17_Witness ==
    /\ mOp = "tweet"
    /\ NeedsVerification
    /\ Cardinality(VerifyRequests) = 2
    /\ NoMatch(Nth(VerifyRequests, 1))
    /\ NoMatch(Nth(VerifyRequests, 2))
    /\ GaveUp

\* the positions of the getQueryId calls
Resolutions == EventsOf({"resolve"})

\* a refresh that changed the cache happened between positions i and j
RefreshedBetween(i, j) ==
    \E r \in EventsOf({"refresh"}) : i < r /\ r < j /\ mTrace[r].outcome = "updated"

\* every resolution of an operation absent from the cache gave the built-in id
DefaultWhenAbsent ==
    \A i \in Resolutions :
        cacheQid[mTrace[i].op] = None => mTrace[i].qid = QUERY_IDS(mTrace[i].op)

\* two resolutions of one operation without a refresh in between agree
RepeatableResolution ==
    \A i, j \in Resolutions :
        (i < j /\ mTrace[i].op = mTrace[j].op /\ ~RefreshedBetween(i, j))
        => mTrace[i].qid = mTrace[j].qid

\* a step changes the cache only when it logs a refresh that updated it
OnlyRefreshWrites ==
    cacheQid' # cacheQid =>
        \E r \in (Len(mTrace) + 1)..Len(mTrace') : mTrace'[r] = EvRefresh("updated")

\* C18: resolving an operation that has no entry in the live cache gives its
\* built-in default on every call; resolution leaves the cache as it is, so
\* repeated resolutions without a refresh in between give the same id.
C18_ResolutionIsIdempotent ==
    /\ [](DefaultWhenAbsent /\ RepeatableResolution)
    /\ [][OnlyRefreshWrites]_vars

\* a bookmark resolved twice against a cache without its id, around a refresh
\* that failed
C18_Witness ==
    /\ mOp = "bookmark"
    /\ cacheQid = PartialCache
    /\ Cardinality(Resolutions) = 2
    /\ \E r \in EventsOf({"refresh"}) : mTrace[r].outcome = "failed"
    /\ \A i \in Resolutions : mTrace[i].qid = QUERY_IDS("CreateBookmark")

\* the positions of the refreshQueryIds calls whose refresh failed
FailedRefreshes ==
    { r \in EventsOf({"refresh"}) : mTrace[r].outcome = "failed" }

\* C19: a failing query-ID refresh does not fail the operation: the id
\* resolved after it is the id resolved before it, the second attempt is sent
\* with that id, and its answer decides the result as if no refresh had failed.
C19_RefreshFailureSwallowed ==
    \A r \in FailedRefreshes :
        LET first == Nth(Resolutions, 1)
        IN  /\ WriteAnswer(1).status = 404
            /\ r + 2 <= Len(mTrace)
            /\ mTrace[r + 1] = EvResolve(OperationName(mOp), mTrace[first].qid)
            /\ mTrace[r + 2] = EvRequest("operation", Some(mTrace[first].qid),
                                         Some(buildBody(mTrace[first].qid)))
            /\ Len(mTrace) = r + 2 => (mpc = "attempt2" /\ mResult = None /\ mEscaped = None)
            /\ (WriteAnswered(2) /\ Succeeds(WriteAnswer(2))) => EndsInSuccessAfter(2)

\* an unlike whose cached id survived a failed refresh and whose retry succeeded
C19_Witness ==
    /\ mOp = "unlike"
    /\ FailedRefreshes # {}
    /\ cacheQid = LiveCache("1")
    /\ WriteAnswered(2)
    /\ mResult = Some(Success)

---------------------------------------------------------------------------
(* What fetchWithTimeout did *)

\* a positive timeout is configured
PositiveTimeout == timeoutMs # None /\ timeoutMs[1] > 0

\* the positions of the fetches that the timer aborted
Aborts ==
    { i \in EventsOf({"response"}) : mTrace[i].status = 0 /\ mTrace[i].body = "aborted" }

\* without a positive timeout no timer is ever set and no fetch is aborted
DirectWithoutTimeout ==
    ~PositiveTimeout => (timer = NoTimer /\ Aborts = {})

\* with a positive timeout every fetch sets a timer, the timer is armed
\* exactly while a fetch is awaited, and a fetch that settled first cleared it
ClearedWhenSettled ==
    /\ timer.armed => mpc \in Pending
    /\ PositiveTimeout =>
          /\ timer.armed <=> mpc \in Pending
          /\ timer.set = Cardinality(EventsOf({"request"}))
          /\ timer.fired = Cardinality(Aborts)
          /\ timer.cleared = Cardinality(EventsOf({"response"})) - Cardinality(Aborts)

\* an aborted fetch ends the operation with success false, nothing escaping
AbortIsFailure ==
    \A i \in Aborts :
        /\ PositiveTimeout
        /\ i = Len(mTrace)
        /\ mpc = "done"
        /\ mEscaped = None
        /\ ~mResult[1].success
        /\ "error" \in DOMAIN mResult[1]

\* with a positive timeout no fetch is awaited for ever
NoEndlessWait ==
    \A s \in Pending : (PositiveTimeout /\ mpc = s) ~> (mpc # s)

\* C20: with a positive timeout a fetch that does not settle is aborted and
\* the operation returns success false instead of waiting for ever or
\* throwing; the timer is cleared when the fetch settles first; without a
\* positive timeout the fetch is direct and no abort is ever scheduled.
C20_TimeoutAborts ==
    /\ [](DirectWithoutTimeout /\ ClearedWhenSettled /\ AbortIsFailure)
    /\ NoEndlessWait

\* a like whose retry was aborted by the timer after its first fetch settled
\* in time and cleared it
C20_Witness ==
    /\ mOp = "like"
    /\ timer = [armed |-> FALSE, set |-> 2, cleared |-> 1, fired |-> 1]
    /\ Aborts # {}
    /\ mResult = Some(Thrown("aborted"))

---------------------------------------------------------------------------
(* Ordering of the requests of one operation *)

\* the number of requests of the write path that are sent and not yet settled
InFlight ==
    Cardinality(EventsOf({"request"})) - Cardinality(EventsOf({"response"}))

\* every request of the write path but the last was settled before the next
\* request was sent
OneAtATime ==
    /\ InFlight \in {0, 1}
    /\ InFlight = 1 <=> mpc \in Pending
    /\ \A i \in EventsOf({"request"}) :
          (\E j \in EventsOf({"request"}) : j > i) => Answered(i)

\* fetchPage is awaited: every call of it but a failed last one gave a page
PagesAwaited ==
    Len(requested) = Len(pageLog) + (IF failure = None THEN 0 ELSE 1)

\* the first fetch uses opts.cursor, every later one the cursor of the page
\* before it
CursorOrder ==
    \A i \in DOMAIN requested :
        requested[i] = IF i = 1 THEN optCursor ELSE pageLog[i - 1].cursor

\* C21: within one operation at most one request is in flight, and the pages
\* of a paginated call are fetched in cursor order: the first with the
\* caller's cursor, each later one with the cursor of the page before it.
C21_OneRequestInCursorOrder ==
    /\ OneAtATime
    /\ PagesAwaited
    /\ CursorOrder

\* three pages fetched from a caller-supplied cursor, each with the cursor of
\* the page before
C21_Witness ==
    /\ optCursor = Some("c1")
    /\ Len(requested) = 3
    /\ Len(pageLog) = 3
    /\ requested[2] # requested[1]
    /\ requested[3] # requested[2]

\* the iterations after the first whose delay is over: one per fetch made
\* after the first, and one more when the next fetch is due
DelaysDue ==
    IF requested = <<>> THEN 0
    ELSE (Len(requested) - 1) + (IF pc = "fetch" THEN 1 ELSE 0)

\* C22: paginateCursor does not sleep before the first fetch, and sleeps
\* pageDelayMs exactly once between two consecutive fetches (a delay of 0 is
\* no sleep at all).
C22_SleepBetweenPages ==
    /\ requested = <<>> => (sleeps = 0 /\ pc = "fetch")
    /\ pc = "sleep" => (pageDelayMs > 0 /\ pagesFetched > 0)
    /\ sleeps * pageDelayMs = DelaysDue * pageDelayMs
    /\ pageDelayMs > 0 => sleeps = DelaysDue
    /\ pageDelayMs <= 0 => sleeps = 0

\* three pages fetched with the default delay: two sleeps
C22_Witness ==
    /\ pageDelayMs = DefaultPageDelayMs
    /\ Len(requested) = 3
    /\ Done
    /\ sleeps = 2

\* C29: within one paginateCursor call no cursor is requested twice, so a
\* server whose cursors come from a finite set cannot keep a call without a
\* page limit going for ever.
C29_NoCursorRequestedTwice ==
    \A i, j \in DOMAIN requested : i # j => requested[i] # requested[j]

\* the position of the last getQueryId call before position i
LastResolutionBefore(i) ==
    CHOOSE r \in Resolutions : r < i /\ \A s \in Resolutions : s < i => s <= r

\* the queryId the request at position i carries in its body
BodyQueryId(i) == mTrace[i].bodyQid[1].queryId

\* C32: on attempts 1 and 2 of a mutation the queryId in the JSON body equals
\* the queryId in the URL; after the refresh that follows a 404, the URL and
\* the body of attempt 2 and the body sent again to the generic endpoint on
\* attempt 3 carry the queryId resolved after the refresh, not the first one
C32_BodyFollowsQueryId ==
    \A i \in GraphqlWrites :
        /\ mTrace[i].bodyQid # None
        /\ BodyQueryId(i) = mTrace[LastResolutionBefore(i)].qid
        /\ mTrace[i].target = "operation" =>
               /\ mTrace[i].urlQid = Some(BodyQueryId(i))
               /\ mTrace[i - 1].kind = "resolve"

\* a refresh changed the id, and the second and third requests carry the new
\* one where the first carried the old one
C32_Witness ==
    /\ Cardinality(GraphqlWrites) = 3
    /\ RefreshedBetween(Nth(GraphqlWrites, 1), Nth(GraphqlWrites, 2))
    /\ BodyQueryId(Nth(GraphqlWrites, 1)) # BodyQueryId(Nth(GraphqlWrites, 2))
    /\ mTrace[Nth(GraphqlWrites, 2)].urlQid = Some(BodyQueryId(Nth(GraphqlWrites, 2)))
    /\ mTrace[Nth(GraphqlWrites, 3)].target = "generic"
    /\ BodyQueryId(Nth(GraphqlWrites, 3)) = BodyQueryId(Nth(GraphqlWrites, 2))

\* C33: every request carries a transaction id generated for that request
\* alone, the retry attempts of one operation included, while the client UUID
\* and the device id are the same in all requests of the client
C33_FreshTransactionIdSameClientIds ==
    /\ Len(sentHeaders) = Requests(mTrace)
    /\ \A i, j \in DOMAIN sentHeaders :
           /\ i # j => sentHeaders[i].transactionId # sentHeaders[j].transactionId
           /\ sentHeaders[i].uuid = sentHeaders[j].uuid
           /\ sentHeaders[i].deviceId = sentHeaders[j].deviceId

\* the three attempts of one operation went out, each with its own transaction
\* id
C33_Witness ==
    /\ Cardinality(GraphqlWrites) = 3
    /\ Len(sentHeaders) = 3
    /\ Cardinality({ sentHeaders[i].transactionId : i \in DOMAIN sentHeaders }) = 3
    /\ Cardinality({ sentHeaders[i].uuid : i \in DOMAIN sentHeaders }) = 1

\* the positions of the write requests of a call: GraphQL create or legacy
\* status update
WriteRequests == GraphqlWrites \cup LegacyRequests

\* the request at position i was answered 2xx and the answer holds no errors list
AnsweredClean(i) ==
    /\ Answered(i)
    /\ Ok(Answer(i).status)
    /\ Answer(i).body \notin {"errors", "errors226"}

\* C30: a tweet or reply call sends no write request (GraphQL create or
\* legacy status update) after one of its write requests was answered 2xx
\* without an errors list.
C30_NoWriteAfterCleanWrite ==
    mOp \in PostingOps =>
        \A i \in WriteRequests :
            AnsweredClean(i) => \A j \in WriteRequests : j <= i

\* a create answered 2xx without errors and without a tweet id: the call went
\* on to read the timeline twice and ended having sent that one write
C30_Witness ==
    /\ mOp \in PostingOps
    /\ mpc = "done"
    /\ Cardinality(WriteRequests) = 1
    /\ AnsweredClean(Nth(WriteRequests, 1))
    /\ Answer(Nth(WriteRequests, 1)).body = "data_noid"
    /\ Cardinality(VerifyRequests) = 2

---------------------------------------------------------------------------
(* createTweet calls interleaved on one client : ensureClientUserId *)

\* the createTweet calls made on one client instance
MaxCallers == 3

Callers == 1..MaxCallers

\* the id of the account the client's cookies belong to
CurrentUserId == "u1"

\* what getCurrentUser resolves to: the account, or a failure
CurrentUserOutcomes == {"found", "failed"}

SharedInit ==
    /\ PagIdle
    /\ AuxIdleExcept("none")
    /\ CfgIdle
    /\ CliIdle
    /\ mOp = "tweet"
    /\ mText = ""
    /\ nodeEnvTest \in BOOLEAN
    /\ cacheQid = None
    /\ clientUserId = None
    /\ mpc = "idle"
    /\ queryId = None
    /\ body = None
    /\ mErrors = None
    /\ mTrace = <<>>
    /\ mResult = None
    /\ mEscaped = None
    /\ timeoutMs = None
    /\ timer = NoTimer
    /\ callerPc = [p \in Callers |-> "idle"]
    /\ lookups = 0
    /\ idWrites = 0

SharedFrame ==
    /\ UNCHANGED <<mOp, mText, nodeEnvTest, cacheQid, mpc, queryId, body, mErrors,
                   mTrace, mResult, mEscaped, timeoutMs, timer>>
    /\ UNCHANGED pagVars
    /\ UNCHANGED <<cfgVars, cliVars, auxVars>>

\* posting line 80, ensureClientUserId lines 135-141: createTweet is called
\* and runs up to its first await
EnsureStarts(p) ==
    /\ callerPc[p] = "idle"
    /\ IF nodeEnvTest \/ clientUserId # None
       THEN /\ callerPc' = [callerPc EXCEPT ![p] = "create"]
            /\ lookups' = lookups
       ELSE /\ callerPc' = [callerPc EXCEPT ![p] = "lookup"]
            /\ lookups' = lookups + 1
    /\ UNCHANGED <<clientUserId, idWrites>>
    /\ SharedFrame

\* ensureClientUserId lines 141-144: getCurrentUser resolves
LookupReturns(p, cu) ==
    /\ callerPc[p] = "lookup"
    /\ IF cu = "found"
       THEN /\ clientUserId' = Some(CurrentUserId)
            /\ idWrites' = idWrites + 1
       ELSE /\ clientUserId' = clientUserId
            /\ idWrites' = idWrites
    /\ callerPc' = [callerPc EXCEPT ![p] = "create"]
    /\ UNCHANGED lookups
    /\ SharedFrame

\* posting lines 81-207: the rest of createTweet, which reads this.clientUserId
\* (lines 360, 371) and never writes it
CreateReturns(p) ==
    /\ callerPc[p] = "create"
    /\ callerPc' = [callerPc EXCEPT ![p] = "done"]
    /\ UNCHANGED <<clientUserId, lookups, idWrites>>
    /\ SharedFrame

SharedStart == \E p \in Callers : EnsureStarts(p)

SharedLookup == \E p \in Callers, cu \in CurrentUserOutcomes : LookupReturns(p, cu)

SharedCreate == \E p \in Callers : CreateReturns(p)

SharedNext == SharedStart \/ SharedLookup \/ SharedCreate

SharedSpec == SharedInit /\ [][SharedNext]_vars

---------------------------------------------------------------------------
(* cli/shared.ts : timeout and quote depth of a command *)

\* a value as a flag or the environment gives it (a string) or as a JSON5
\* file gives it (a number)
Str(s) == [type |-> "string", v |-> s]

Num(n) == [type |-> "number", v |-> n]

\* Number(s) for a string of digits with an optional sign; None stands for NaN
ToNumber(s) ==
    LET neg  == s # <<>> /\ Head(s) = "-"
        rest == IF neg THEN Tail(s) ELSE s
        ds   == DigitPrefix(rest)
    IN  IF s = <<>> THEN Some(0)
        ELSE IF ds = <<>> \/ ds # rest THEN None
        ELSE Some(IF neg THEN 0 - DigitsValue(ds, 0) ELSE DigitsValue(ds, 0))

\* lines 92-94, 104-106: undefined, null and '' are passed over
Unset(value) ==
    value = None \/ (value[1].type = "string" /\ value[1].v = <<>>)

\* line 95: the number a timeout source holds, None for NaN
TimeoutOf(value) ==
    IF value[1].type = "number" THEN Some(value[1].v) ELSE ToNumber(value[1].v)

\* line 107: the number a quote-depth source holds, None for NaN
QuoteDepthOf(value) ==
    IF value[1].type = "number" THEN Some(value[1].v) ELSE ParseInt(value[1].v)

\* line 96: the source holds a usable timeout
ValidTimeout(value) ==
    ~Unset(value) /\ TimeoutOf(value) # None /\ TimeoutOf(value)[1] > 0

\* line 108: the source holds a usable quote depth
ValidQuoteDepth(value) ==
    ~Unset(value) /\ QuoteDepthOf(value) # None /\ QuoteDepthOf(value)[1] >= 0

RECURSIVE resolveTimeoutMs(_)
\* lines 90-101: the first usable value, in argument order
resolveTimeoutMs(values) ==
    IF values = <<>> THEN None
    ELSE IF ValidTimeout(Head(values)) THEN TimeoutOf(Head(values))
    ELSE resolveTimeoutMs(Tail(values))

RECURSIVE resolveQuoteDepth(_)
\* lines 102-113: the first usable value, in argument order (Math.floor leaves
\* the integers of the model as they are)
resolveQuoteDepth(values) ==
    IF values = <<>> THEN None
    ELSE IF ValidQuoteDepth(Head(values)) THEN QuoteDepthOf(Head(values))
    ELSE resolveQuoteDepth(Tail(values))

\* lines 152-160: { ...global, ...local }, a key of the project file replacing
\* the same key of the global file.  A key is None when the file or the key is
\* missing, or the file does not parse (readConfigFile, lines 138-150)
loadConfig(globalCfg, localCfg) ==
    [timeoutMs  |-> IF localCfg.timeoutMs # None THEN localCfg.timeoutMs
                    ELSE globalCfg.timeoutMs,
     quoteDepth |-> IF localCfg.quoteDepth # None THEN localCfg.quoteDepth
                    ELSE globalCfg.quoteDepth]

\* the values tried for a flag, an environment variable and the two files
FlagTexts == {None, Some(Str(<<"x">>)), Some(Str(<<"2", "x">>)), Some(Str(<<"3", "0">>))}

EnvTexts == {None, Some(Str(<<>>)), Some(Str(<<"0">>)), Some(Str(<<"2", "0">>))}

LocalValues == {None, Some(Num(0 - 1)), Some(Num(10))}

GlobalValues == {None, Some(Num(0)), Some(Num(1))}

---------------------------------------------------------------------------
(* twitter-client-utils : quote depth of the mapper *)

\* the quote depth of a client built without one
DefaultQuoteDepth == 1

\* normalizeQuoteDepth(options.quoteDepth)
normalizeQuoteDepth(value) ==
    IF value = None THEN DefaultQuoteDepth ELSE value[1]

\* the longest quote chain tried: a tweet quoting a tweet quoting ...
MaxQuoteChain == 4

\* a raw tweet result, as the ids of the tweet and of the chain of tweets
\* quoted below it
QuoteChains == { [i \in 1..n |-> i] : n \in 1..MaxQuoteChain }

RECURSIVE mapTweetResult_Stubs(_, _)
\* the mapper leaving an empty quotedTweet where the budget ran out
mapTweetResult_Stubs(raw, depth) ==
    IF Len(raw) > 1
    THEN [id |-> Head(raw),
          quotedTweet |-> IF depth > 0 THEN mapTweetResult_Stubs(Tail(raw), depth - 1)
                          ELSE <<>>]
    ELSE [id |-> Head(raw)]

RECURSIVE mapTweetResult(_, _)
\* mapTweetResult(rawResult, currentQuoteDepth): with budget left the quoted
\* result is mapped with depth - 1, without it the field is left out
mapTweetResult(raw, depth) ==
    IF depth > 0 /\ Len(raw) > 1
    THEN [id |-> Head(raw), quotedTweet |-> mapTweetResult(Tail(raw), depth - 1)]
    ELSE [id |-> Head(raw)]

CfgInit ==
    /\ PagIdle
    /\ AuxIdleExcept("none")
    /\ MutIdle
    /\ ConIdle
    /\ CliIdle
    /\ optTimeout \in FlagTexts
    /\ optQuoteDepth \in FlagTexts
    /\ envTimeout \in EnvTexts
    /\ envQuoteDepth \in EnvTexts
    /\ globalFile \in [timeoutMs : GlobalValues, quoteDepth : GlobalValues]
    /\ localFile \in [timeoutMs : LocalValues, quoteDepth : LocalValues]
    /\ config = None
    /\ cfgPc = "load"
    /\ resolvedTimeout = None
    /\ resolvedQuoteDepth = None
    /\ quoteDepth = None
    /\ rawResult = <<>>
    /\ mapped = None

CfgFrame ==
    /\ UNCHANGED <<optTimeout, optQuoteDepth, envTimeout, envQuoteDepth, globalFile,
                   localFile>>
    /\ UNCHANGED <<mOp, mText, nodeEnvTest, cacheQid, clientUserId, mpc, queryId,
                   body, mErrors, mTrace, mResult, mEscaped, timer>>
    /\ UNCHANGED pagVars
    /\ UNCHANGED <<conVars, cliVars, auxVars>>

\* shared.ts line 245: createCliContext reads the two files
LoadConfig ==
    /\ cfgPc = "load"
    /\ config' = Some(loadConfig(globalFile, localFile))
    /\ cfgPc' = "resolve"
    /\ UNCHANGED <<resolvedTimeout, resolvedQuoteDepth, quoteDepth, rawResult, mapped,
                   timeoutMs>>
    /\ CfgFrame

\* read.ts lines 16-17 (every command alike), shared.ts lines 256-266
ResolveOptions ==
    /\ cfgPc = "resolve"
    /\ resolvedTimeout' =
          resolveTimeoutMs(<<optTimeout, config[1].timeoutMs, envTimeout>>)
    /\ resolvedQuoteDepth' =
          resolveQuoteDepth(<<optQuoteDepth, config[1].quoteDepth, envQuoteDepth>>)
    /\ cfgPc' = "construct"
    /\ UNCHANGED <<config, quoteDepth, rawResult, mapped, timeoutMs>>
    /\ CfgFrame

\* read.ts line 32, the constructor of the base class (lines 36-37)
Construct ==
    /\ cfgPc = "construct"
    /\ timeoutMs' = resolvedTimeout
    /\ quoteDepth' = Some(normalizeQuoteDepth(resolvedQuoteDepth))
    /\ cfgPc' = "map"
    /\ UNCHANGED <<config, resolvedTimeout, resolvedQuoteDepth, rawResult, mapped>>
    /\ CfgFrame

\* the client maps a tweet result of the response with its quote depth
MapTweet(raw) ==
    /\ cfgPc = "map"
    /\ rawResult' = raw
    /\ mapped' = Some(mapTweetResult(raw, quoteDepth[1]))
    /\ cfgPc' = "done"
    /\ UNCHANGED <<config, resolvedTimeout, resolvedQuoteDepth, quoteDepth, timeoutMs>>
    /\ CfgFrame

CfgMap == \E raw \in QuoteChains : MapTweet(raw)

CfgNext == LoadConfig \/ ResolveOptions \/ Construct \/ CfgMap

CfgSpec == CfgInit /\ [][CfgNext]_vars

RECURSIVE Nesting(_)
\* the number of quotedTweet levels below a mapped tweet
Nesting(tweet) ==
    IF "quotedTweet" \in DOMAIN tweet THEN 1 + Nesting(tweet.quotedTweet) ELSE 0

RECURSIVE WholeTweets(_)
\* every quotedTweet present is a tweet record, never an empty or partial object
WholeTweets(tweet) ==
    /\ "id" \in DOMAIN tweet
    /\ "quotedTweet" \in DOMAIN tweet => WholeTweets(tweet.quotedTweet)

\* the quote depth the command handed to the client, 1 when it handed none
SuppliedDepth ==
    IF resolvedQuoteDepth = None THEN DefaultQuoteDepth ELSE resolvedQuoteDepth[1]

\* the smaller of two numbers
Min(a, b) == IF a <= b THEN a ELSE b

\* C23: the quotedTweet nesting of a mapped tweet never exceeds the quote
\* depth the caller supplied, each level present is a whole tweet, with depth
\* 0 there is no quotedTweet field, and with depth 1 a quote of a quote of a
\* quote shows one level and leaves the second out.
C23_QuoteDepthBound ==
    mapped # None =>
        /\ WholeTweets(mapped[1])
        /\ Nesting(mapped[1]) = Min(SuppliedDepth, Len(rawResult) - 1)
        /\ Nesting(mapped[1]) <= SuppliedDepth
        /\ SuppliedDepth = 0 => "quotedTweet" \notin DOMAIN mapped[1]
        /\ (SuppliedDepth = 1 /\ Len(rawResult) >= 3) =>
              /\ "quotedTweet" \in DOMAIN mapped[1]
              /\ mapped[1].quotedTweet = [id |-> rawResult[2]]

\* a tweet quoting a quote of a quote, mapped by a client that was handed
\* the quote depth 1
C23_Witness ==
    /\ mapped # None
    /\ Len(rawResult) = 4
    /\ resolvedQuoteDepth = Some(1)
    /\ Nesting(mapped[1]) = 1

\* C25: the timeout and the quote depth are resolved with the precedence flag
\* > environment variable > project file > global file: a valid value of a
\* higher source wins over any value of a lower one.
C25_PrecedenceAsClaimed ==
    cfgPc \in {"construct", "map", "done"} =>
        /\ ValidTimeout(optTimeout) => resolvedTimeout = TimeoutOf(optTimeout)
        /\ (~ValidTimeout(optTimeout) /\ ValidTimeout(envTimeout)) =>
              resolvedTimeout = TimeoutOf(envTimeout)
        /\ (~ValidTimeout(optTimeout) /\ ~ValidTimeout(envTimeout)
              /\ ValidTimeout(localFile.timeoutMs)) =>
              resolvedTimeout = TimeoutOf(localFile.timeoutMs)
        /\ ValidQuoteDepth(optQuoteDepth) =>
              resolvedQuoteDepth = QuoteDepthOf(optQuoteDepth)
        /\ (~ValidQuoteDepth(optQuoteDepth) /\ ValidQuoteDepth(envQuoteDepth)) =>
              resolvedQuoteDepth = QuoteDepthOf(envQuoteDepth)
        /\ (~ValidQuoteDepth(optQuoteDepth) /\ ~ValidQuoteDepth(envQuoteDepth)
              /\ ValidQuoteDepth(localFile.quoteDepth)) =>
              resolvedQuoteDepth = QuoteDepthOf(localFile.quoteDepth)

---------------------------------------------------------------------------
(* commands : bookmarks, replies, thread, user-tweets, mentions, unbookmark *)

Commands == {"bookmarks", "replies", "thread", "user-tweets", "mentions", "unbookmark"}

\* the commands that read their flags with parsePaginationFlags
FlagCommands == {"bookmarks", "replies", "thread"}

\* the commands that take --max-pages
PagedCommands == FlagCommands \cup {"user-tweets"}

\* --delay as typed; None is the flag left out
RawDelays == {None, Some(<<"x">>), Some(<<"0">>)}

\* --cursor as typed; None is the flag left out
RawCursors == {None, Some(""), Some("c1")}

\* a handle as typed: one normalizeHandle accepts and one it does not
Handles == {"@bob", "b b"}

\* normalizeHandle(handle) gives a name
HandleOk(handle) == handle = "@bob"

\* the tweet ids or urls an unbookmark run is given: one to three of them
MaxArgs == 3

TweetInputs == {"1", "https://x.com/u/status/2"}

UnbookmarkArgs == UNION { [1..n -> TweetInputs] : n \in 1..MaxArgs }

\* ctx.extractTweetId(input): an id is kept, a status url gives its id
extractTweetId(input) == IF input = "https://x.com/u/status/2" THEN "2" ELSE input

\* the default of --delay
DefaultDelayMs == 1000

\* parseNonNegativeIntFlag(raw, flagName, defaultValue), pagination.ts lines 22-32
parseNonNegativeIntFlag(raw, defaultValue) ==
    LET value == IF raw = None THEN Some(defaultValue) ELSE ParseInt(raw[1])
    IN  IF value = None \/ value[1] < 0 THEN [ok |-> FALSE]
        ELSE [ok |-> TRUE, value |-> value[1]]

\* pagination.ts lines 59-61: Boolean(all || cursor || (implies && maxPages given))
usePagination(all, cur, implies, limit) ==
    all \/ ~Falsy(cur) \/ (implies /\ limit # None)

\* parsePaginationFlags(cmdOpts, opts), pagination.ts lines 34-79
parsePaginationFlags(all, cur, rawMax, rawDelay, implies, includeDelay) ==
    LET limit == parsePositiveIntFlag(rawMax)
        delay == parseNonNegativeIntFlag(rawDelay, DefaultDelayMs)
    IN  IF ~limit.ok THEN limit
        ELSE IF includeDelay /\ ~delay.ok THEN delay
        ELSE [ok |-> TRUE,
              usePagination |-> usePagination(all, cur, implies, limit.value),
              maxPages |-> limit.value,
              cursor |-> cur,
              pageDelayMs |-> IF includeDelay THEN Some(delay.value) ELSE None]

\* what a client method resolves to, as a command sees it
CallOutcomes == {"success", "failure"}

Called(method, arg) == [method |-> method, arg |-> arg]

\* the commands whose action is in read.ts
ReadCommands == {"replies", "thread"}

\* what getReplies, getRepliesPaged, getThread and getThreadPaged resolve to:
\* a success with its tweets, or a failure with or without the tweets of the
\* pages fetched before it
ReadResults ==
    [ success : {TRUE}, tweets : {Some(<<>>), Some(<<"t1", "t2">>)},
      nextCursor : {None, Some("c9")}, error : {None} ]
    \cup [ success : {FALSE}, tweets : {None, Some(<<>>), Some(<<"t1", "t2">>)},
           nextCursor : {None, Some("c9")}, error : {Some("HTTP 429")} ]

CliInit ==
    /\ PagIdle
    /\ AuxIdleExcept("output")
    /\ MutIdle
    /\ ConIdle
    /\ CfgIdle
    /\ cmdName \in Commands
    /\ cmdAll \in IF cmdName \in FlagCommands THEN BOOLEAN ELSE {FALSE}
    /\ cmdCursor \in IF cmdName \in PagedCommands THEN RawCursors ELSE {None}
    /\ cmdMaxPages \in IF cmdName \in PagedCommands
                       THEN {None} \cup {Some(s) : s \in RawFlags} ELSE {None}
    /\ cmdDelay \in IF cmdName \in {"replies", "thread", "user-tweets"}
                    THEN RawDelays ELSE {None}
    /\ cmdHandle \in CASE cmdName = "user-tweets" -> {Some(h) : h \in Handles}
                       [] cmdName = "mentions" -> {None} \cup {Some(h) : h \in Handles}
                       [] OTHER -> {None}
    /\ cmdArgs \in IF cmdName = "unbookmark" THEN UnbookmarkArgs ELSE {<<>>}
    /\ cliPc = "start"
    /\ pagination = None
    /\ cliCalls = <<>>
    /\ failures = 0
    /\ exitCode = None
    /\ cmdJson \in IF cmdName \in ReadCommands THEN BOOLEAN ELSE {FALSE}
    /\ callResult = None
    /\ printed = <<>>

CliFrame ==
    /\ UNCHANGED <<cmdName, cmdAll, cmdCursor, cmdMaxPages, cmdDelay, cmdHandle, cmdArgs>>
    /\ UNCHANGED pagVars
    /\ UNCHANGED mutVars
    /\ UNCHANGED <<conVars, cfgVars>>
    /\ AuxFrameExcept("output")
    /\ UNCHANGED cmdJson

\* process.exit(code), or the action returning (code 0)
Exit(code) ==
    /\ cliPc' = "exited"
    /\ exitCode' = Some(code)

\* the action calls a client method and awaits it
Calls(method, arg) ==
    /\ cliCalls' = Append(cliCalls, Called(method, arg))
    /\ cliPc' = "call"
    /\ exitCode' = exitCode

\* the code the checks made before the credentials are read end the run
\* with, if any: bookmarks.ts 50-54, read.ts 76-80 and 153-157,
\* user-tweets (docs/testing.md) 86-124, search.ts 59-63
UsageExit ==
    CASE cmdName \in FlagCommands ->
           IF parsePaginationFlags(cmdAll, cmdCursor, cmdMaxPages, cmdDelay,
                                   cmdName # "bookmarks", cmdName # "bookmarks").ok
           THEN None ELSE Some(1)
      [] cmdName = "user-tweets" ->
           IF /\ parsePositiveIntFlag(cmdMaxPages).ok
              /\ parseNonNegativeIntFlag(cmdDelay, DefaultDelayMs).ok
              /\ HandleOk(cmdHandle[1])
           THEN None ELSE Some(2)
      [] cmdName = "mentions" ->
           IF cmdHandle = None \/ HandleOk(cmdHandle[1]) THEN None ELSE Some(2)
      [] OTHER -> None

\* the action up to await ctx.resolveCredentialsFromOptions(opts)
CliValidate ==
    /\ cliPc = "start"
    /\ pagination' =
          IF cmdName \in FlagCommands
          THEN Some(parsePaginationFlags(cmdAll, cmdCursor, cmdMaxPages, cmdDelay,
                                         cmdName # "bookmarks", cmdName # "bookmarks"))
          ELSE None
    /\ IF UsageExit # None THEN Exit(UsageExit[1])
       ELSE cliPc' = "credentials" /\ exitCode' = exitCode
    /\ UNCHANGED <<cliCalls, failures>>
    /\ UNCHANGED <<callResult, printed>>
    /\ CliFrame

\* the credentials are resolved: the run ends without them (exit 1), or goes
\* on to its first client call.  bookmarks.ts 57-93, read.ts 82-103 and
\* 159-180, user-tweets 126-141, search.ts 67-94, unbookmark 14-30
CliCredentials(present) ==
    /\ cliPc = "credentials"
    /\ IF ~present THEN Exit(1) /\ cliCalls' = cliCalls
       ELSE CASE cmdName = "bookmarks" ->
                   IF pagination[1].maxPages # None /\ ~pagination[1].usePagination
                   THEN Exit(1) /\ cliCalls' = cliCalls
                   ELSE Calls(IF pagination[1].usePagination THEN "getAllBookmarks"
                              ELSE "getBookmarks", "")
              [] cmdName = "replies" ->
                   Calls(IF pagination[1].usePagination THEN "getRepliesPaged"
                         ELSE "getReplies", "")
              [] cmdName = "thread" ->
                   Calls(IF pagination[1].usePagination THEN "getThreadPaged"
                         ELSE "getThread", "")
              [] cmdName = "user-tweets" -> Calls("getUserIdByUsername", cmdHandle[1])
              [] cmdName = "mentions" ->
                   IF cmdHandle = None THEN Calls("getCurrentUser", "")
                   ELSE Calls("search", cmdHandle[1])
              [] cmdName = "unbookmark" -> Calls("unbookmark", extractTweetId(cmdArgs[1]))
    /\ UNCHANGED <<pagination, failures>>
    /\ UNCHANGED <<callResult, printed>>
    /\ CliFrame

\* the loop of the unbookmark command ending at the first failed removal
UnbookmarkStep_StopsAtFailure(outcome) ==
    LET failed == failures + (IF outcome = "failure" THEN 1 ELSE 0)
    IN  /\ failures' = failed
        /\ IF Len(cliCalls) < Len(cmdArgs) /\ outcome = "success"
           THEN Calls("unbookmark", extractTweetId(cmdArgs[Len(cliCalls) + 1]))
           ELSE Exit(IF failed > 0 THEN 1 ELSE 0) /\ cliCalls' = cliCalls

\* unbookmark lines 28-41: the result of one removal, then the next argument
\* or the end of the loop
UnbookmarkStep(outcome) ==
    LET failed == failures + (IF outcome = "failure" THEN 1 ELSE 0)
    IN  /\ failures' = failed
        /\ IF Len(cliCalls) < Len(cmdArgs)
           THEN Calls("unbookmark", extractTweetId(cmdArgs[Len(cliCalls) + 1]))
           ELSE Exit(IF failed > 0 THEN 1 ELSE 0) /\ cliCalls' = cliCalls

\* the client call the action awaits resolves.  bookmarks.ts 95-116,
\* user-tweets 142-176, search.ts 81-104, unbookmark 30-41
CliCallReturns(outcome) ==
    /\ cliPc = "call"
    /\ cmdName \notin ReadCommands
    /\ LET method == cliCalls[Len(cliCalls)].method
       IN  IF method = "unbookmark" THEN UnbookmarkStep(outcome)
           ELSE /\ failures' = failures
                /\ IF outcome = "failure" THEN Exit(1) /\ cliCalls' = cliCalls
                   ELSE IF method = "getUserIdByUsername"
                        THEN Calls("getUserTweetsPaged", cmdHandle[1])
                   ELSE IF method = "getCurrentUser" THEN Calls("search", "")
                   ELSE Exit(0) /\ cliCalls' = cliCalls
    /\ UNCHANGED pagination
    /\ UNCHANGED <<callResult, printed>>
    /\ CliFrame

\* ctx.printTweetsResult(result, { json, usePagination, emptyMessage }): the
\* tweets of the result, printed in one piece
TweetsPrinted(res, json) == [out |-> "tweets", tweets |-> res.tweets[1], json |-> json]

\* read.ts 115, 192-194: the hint on how to go on
HintPrinted(nextCursor) == [out |-> "hint", cursor |-> nextCursor]

\* read.ts 120, 199
ErrorPrinted(error) == [out |-> "error", error |-> error]

\* the tail of the replies and thread actions with the failure looked at first
ReadOutput_ErrorFirst(res, json) ==
    IF ~res.success THEN <<ErrorPrinted(res.error[1])>>
    ELSE (IF res.tweets # None THEN <<TweetsPrinted(res, json)>> ELSE <<>>)
         \o (IF res.tweets # None /\ res.nextCursor # None /\ ~json
             THEN <<HintPrinted(res.nextCursor[1])>> ELSE <<>>)

\* read.ts 105-122 and 182-200: what the replies and thread actions print of a
\* result
ReadOutput(res, json) ==
    (IF res.tweets # None THEN <<TweetsPrinted(res, json)>> ELSE <<>>)
    \o (IF res.tweets # None /\ res.nextCursor # None /\ ~json
        THEN <<HintPrinted(res.nextCursor[1])>> ELSE <<>>)
    \o (IF ~res.success THEN <<ErrorPrinted(res.error[1])>> ELSE <<>>)

\* read.ts 95-122 and 172-200: the client call of a replies or thread action
\* resolves
ReadCallReturns(res) ==
    /\ cliPc = "call"
    /\ cmdName \in ReadCommands
    /\ callResult' = Some(res)
    /\ printed' = printed \o ReadOutput(res, cmdJson)
    /\ Exit(IF res.success THEN 0 ELSE 1)
    /\ UNCHANGED <<pagination, cliCalls, failures>>
    /\ CliFrame

CliCredentialsStep == \E present \in BOOLEAN : CliCredentials(present)

CliCallStep == \E outcome \in CallOutcomes : CliCallReturns(outcome)

CliReadStep == \E res \in ReadResults : ReadCallReturns(res)

CliNext == CliValidate \/ CliCredentialsStep \/ CliCallStep \/ CliReadStep

CliSpec == CliInit /\ [][CliNext]_vars

\* the run is over
Exited == cliPc = "exited"

\* the run was rejected: it ended with an error code and called no client method
RejectedRun == Exited /\ exitCode # Some(0) /\ cliCalls = <<>>

\* a string of digits that reads as a number above 0
PositiveInteger(s) == s # <<>> /\ DigitPrefix(s) = s /\ DigitsValue(s, 0) > 0

\* the usage errors of a run: a malformed handle, a --max-pages the flag
\* parser refuses, or --max-pages on bookmarks with neither --all nor --cursor
InvalidUsage ==
    \/ cmdHandle # None /\ ~HandleOk(cmdHandle[1])
    \/ ~parsePositiveIntFlag(cmdMaxPages).ok
    \/ cmdName = "bookmarks" /\ cmdMaxPages # None /\ ~cmdAll /\ cmdCursor = None

\* C26: invalid usage (a malformed handle, an invalid --max-pages, --max-pages
\* without --all/--cursor) is reported before any network call and ends the
\* command with exit code 2, never 1.
C26_InvalidUsageExits2 ==
    InvalidUsage =>
        /\ cliCalls = <<>>
        /\ Exited => exitCode = Some(2)

\* C27: pagination is on exactly when --all or --cursor is given, or
\* --max-pages on replies and thread; on bookmarks --max-pages without --all
\* or --cursor is rejected with no bookmarks request; a --max-pages that is
\* not a positive integer is rejected on every command.
C27_PaginationFlags ==
    /\ (cmdName \in FlagCommands /\ pagination # None /\ pagination[1].ok) =>
          (pagination[1].usePagination <=>
              \/ cmdAll
              \/ cmdCursor # None
              \/ cmdMaxPages # None /\ cmdName \in {"replies", "thread"})
    /\ (cmdName = "bookmarks" /\ cmdMaxPages # None /\ ~cmdAll /\ cmdCursor = None) =>
          /\ cliCalls = <<>>
          /\ Exited => RejectedRun
    /\ (cmdMaxPages # None /\ ~PositiveInteger(cmdMaxPages[1])) =>
          /\ cliCalls = <<>>
          /\ cliPc \in {"start", "exited"}

\* the client calls an unbookmark run makes when it goes through all its
\* arguments
AllRemovals ==
    [i \in 1..Len(cmdArgs) |-> Called("unbookmark", extractTweetId(cmdArgs[i]))]

\* C28 as stated: unbookmark calls client.unbookmark once per argument, in
\* argument order, whatever fails, and exits with code 1 exactly when a
\* removal failed.
C28_AsClaimed ==
    (cmdName = "unbookmark" /\ Exited) =>
        /\ cliCalls = AllRemovals
        /\ exitCode = Some(1) <=> failures > 0

\* C28: with credentials at hand unbookmark calls client.unbookmark once per
\* argument, in argument order, going on after a failed removal, and exits
\* with code 1 exactly when a removal failed; without credentials it calls
\* nothing and exits with code 1.
C28_OncePerArgument ==
    cmdName = "unbookmark" =>
        /\ cliCalls = SubSeq(AllRemovals, 1, Len(cliCalls))
        /\ failures <= Len(cliCalls)
        /\ cliPc = "call" => exitCode = None
        /\ Exited =>
              \/ cliCalls = <<>> /\ failures = 0 /\ exitCode = Some(1)
              \/ /\ cliCalls = AllRemovals
                 /\ exitCode = Some(IF failures > 0 THEN 1 ELSE 0)

\* three arguments, the first removal failed, the other two were still made
C28_Witness ==
    /\ cmdName = "unbookmark"
    /\ Exited
    /\ Len(cmdArgs) = 3
    /\ cliCalls = AllRemovals
    /\ failures = 1
    /\ exitCode = Some(1)

\* C24: the current-user id is set at most once per client instance,
\* whatever the interleaving of the calls running on the client: this.clientUserId
\* is assigned at most once.
C24_SetOnce == idWrites <= 1

---------------------------------------------------------------------------
(* verifyTweetByFetching: which tweet of the timeline is taken for the one    *)
(* just created (src/src/lib/twitter-client-posting.ts, lines 359-472).      *)
(* A text is a sequence of characters in which "LINK" stands for one whole    *)
(* short link, https://t.co/ followed by word characters.                     *)

\* line 426-427: text.replace(/https?:\/\/t\.co\/\w+/g, '')
RemoveLinks(text) == SelectSeq(text, LAMBDA c : c # "LINK")

RECURSIVE TrimStart(_)
\* String.prototype.trim, the leading white space
TrimStart(text) ==
    IF text # <<>> /\ Head(text) = " " THEN TrimStart(Tail(text)) ELSE text

RECURSIVE TrimEnd(_)
\* String.prototype.trim, the trailing white space
TrimEnd(text) ==
    IF text # <<>> /\ text[Len(text)] = " "
    THEN TrimEnd(SubSeq(text, 1, Len(text) - 1))
    ELSE text

\* String.prototype.toLowerCase
ToLowerCase(text) == [i \in DOMAIN text |-> IF text[i] = "H" THEN "h" ELSE text[i]]

\* lines 426-427
normalizeText(text) == ToLowerCase(TrimEnd(TrimStart(RemoveLinks(text))))

\* line 433: the width of the window, in ms
RecentWindowMs == 60000

\* the time at which verifyTweetByFetching is called, more than a minute after
\* the epoch
CallTime == 1000 * 1000

\* tweet.createdAt: missing, a date (ms since the epoch), or a string that
\* Date cannot parse
CreatedAts ==
    { [kind |-> "missing"], [kind |-> "invalid"] }
    \cup [kind : {"date"},
          t : { CallTime + VerifyDelayMs - (RecentWindowMs + 1),
                CallTime + VerifyDelayMs - (RecentWindowMs - 1000),
                CallTime + VerifyDelayMs - 1000 }]

\* line 437-438: tweetTime < oneMinuteAgo, with tweetTime 0 for a missing
\* createdAt and NaN, which compares false with everything, for an unparsable one
TooOld(createdAt, oneMinuteAgo) ==
    CASE createdAt.kind = "missing" -> 0 < oneMinuteAgo
      [] createdAt.kind = "invalid" -> FALSE
      [] OTHER -> createdAt.t < oneMinuteAgo

\* line 443
TextMatches(normalizedTweet, normalizedExpected) ==
    \/ StartsWith(normalizedTweet, normalizedExpected)
    \/ StartsWith(normalizedExpected, normalizedTweet)

RECURSIVE findMatch(_, _, _)
\* lines 435-448: the id of the first tweet of the list that is not too old and
\* whose text matches
findMatch(list, expected, oneMinuteAgo) ==
    IF list = <<>> THEN None
    ELSE IF /\ ~TooOld(Head(list).createdAt, oneMinuteAgo)
            /\ TextMatches(normalizeText(Head(list).text), normalizeText(expected))
         THEN Some(Head(list).id)
         ELSE findMatch(Tail(list), expected, oneMinuteAgo)

\* the texts given to createTweet
ExpectedTexts == { <<"H", "i">>, <<"h", "i", " ", "LINK">> }

\* the texts of the tweets of the timeline
TweetTexts ==
    { <<"H", "i", " ", "LINK">>, <<"h", "i", "!">>, <<"h">>, <<"LINK">>, <<"y", "o">> }

\* the longest timeline
MaxTimeline == 2

\* the timelines the UserTweets query returns: the id of a tweet is its place
Timelines ==
    UNION { { [i \in 1..n |-> [id |-> i, text |-> f[i][1], createdAt |-> f[i][2]]]
              : f \in [1..n -> TweetTexts \X CreatedAts] }
            : n \in 0..MaxTimeline }

\* the answers to the UserTweets query: a timeline, a response that is not ok,
\* or fetch / response.json() throwing
TimelineAnswers ==
    [kind : {"ok"}, tweets : Timelines] \cup { [kind |-> "notok"], [kind |-> "throws"] }

VerifyInit ==
    /\ PagIdle
    /\ ConIdle /\ CfgIdle /\ CliIdle
    /\ AuxIdleExcept("verify")
    /\ mOp = "none"
    /\ mText = ""
    /\ nodeEnvTest = FALSE
    /\ cacheQid = None
    /\ clientUserId \in {None, Some(CurrentUserId)}
    /\ mpc = "idle"
    /\ queryId = None
    /\ body = None
    /\ mErrors = None
    /\ mTrace = <<>>
    /\ mResult = None
    /\ mEscaped = None
    /\ timeoutMs = None
    /\ timer = NoTimer
    /\ vPc = "start"
    /\ expectedText \in ExpectedTexts
    /\ clock = CallTime
    /\ now = None
    /\ tweetList = <<>>
    /\ verifiedId = None

VerifyFrame ==
    /\ UNCHANGED expectedText
    /\ UNCHANGED pagVars
    /\ UNCHANGED mutVars
    /\ UNCHANGED <<conVars, cfgVars, cliVars>>
    /\ AuxFrameExcept("verify")

\* the call resolves to id
VerifyReturns(id) ==
    /\ vPc' = "done"
    /\ verifiedId' = id

\* lines 360-367: nothing to look at without a user id; otherwise the first
\* delay
VerifyStart ==
    /\ vPc = "start"
    /\ IF clientUserId = None
       THEN VerifyReturns(None) /\ UNCHANGED clock
       ELSE /\ vPc' = "fetch1"
            /\ clock' = clock + VerifyDelayMs
            /\ UNCHANGED verifiedId
    /\ UNCHANGED <<now, tweetList>>
    /\ VerifyFrame

\* lines 389-455: the first answer; a match returns, no match waits again
VerifyFirst(answer) ==
    /\ vPc = "fetch1"
    /\ IF answer.kind # "ok"
       THEN VerifyReturns(None) /\ UNCHANGED <<now, tweetList, clock>>
       ELSE /\ now' = Some(clock)
            /\ tweetList' = answer.tweets
            /\ LET firstMatch == findMatch(answer.tweets, expectedText,
                                           clock - RecentWindowMs)
               IN  IF firstMatch # None
                   THEN VerifyReturns(firstMatch) /\ UNCHANGED clock
                   ELSE /\ vPc' = "fetch2"
                        /\ clock' = clock + VerifyDelayMs
                        /\ UNCHANGED verifiedId
    /\ VerifyFrame

\* lines 456-472: the second answer, matched against the window computed
\* before the first one
VerifyRetry(answer) ==
    /\ vPc = "fetch2"
    /\ IF answer.kind # "ok"
       THEN VerifyReturns(None) /\ UNCHANGED tweetList
       ELSE /\ tweetList' = answer.tweets
            /\ VerifyReturns(findMatch(answer.tweets, expectedText,
                                       now[1] - RecentWindowMs))
    /\ UNCHANGED <<now, clock>>
    /\ VerifyFrame

VerifyFirstAnswer == \E answer \in TimelineAnswers : VerifyFirst(answer)

VerifyRetryAnswer == \E answer \in TimelineAnswers : VerifyRetry(answer)

VerifyNext == VerifyStart \/ VerifyFirstAnswer \/ VerifyRetryAnswer

VerifySpec == VerifyInit /\ [][VerifyNext]_vars

\* the tweet the call reported as the created one
ReportedTweet == CHOOSE t \in {tweetList[i] : i \in DOMAIN tweetList} : t.id = verifiedId[1]

\* the tweet was created within the minute before the id is returned
CreatedInLastMinute(t) ==
    /\ t.createdAt.kind = "date"
    /\ t.createdAt.t <= clock
    /\ clock - t.createdAt.t <= RecentWindowMs

\* C31: verification returns an id only for a tweet of the timeline that was
\* created within the last minute and whose normalized text starts with the
\* normalized expected text; an older tweet, or one with unrelated text, is
\* never reported
C31_OnlyRecentMatchingTweet ==
    (vPc = "done" /\ verifiedId # None) =>
        /\ CreatedInLastMinute(ReportedTweet)
        /\ StartsWith(normalizeText(ReportedTweet.text), normalizeText(expectedText))

---------------------------------------------------------------------------
(* uploadMedia (src/src/lib/twitter-client-media.ts, lines 18-171)           *)

\* line 67
ChunkSize == 5 * 1024 * 1024

\* line 111: while (attempts < 20)
MaxAttempts == 20

\* a MIME type, split at its slash
MimeTypes ==
    { <<"image", "png">>, <<"image", "gif">>, <<"video", "mp4">>, <<"audio", "mpeg">> }

\* lines 18-29: mediaCategoryForMime
mediaCategoryForMime(mimeType) ==
    IF mimeType[1] = "image"
    THEN IF mimeType = <<"image", "gif">> THEN Some("tweet_gif") ELSE Some("tweet_image")
    ELSE IF mimeType[1] = "video" THEN Some("tweet_video")
    ELSE None

\* input.data.byteLength: no data, less than a chunk, whole chunks, and a rest
ByteLengths == { 0, 1, ChunkSize, ChunkSize + 1, 2 * ChunkSize }

\* what uploadMedia is called with
UploadInputs ==
    [ byteLength : ByteLengths, mimeType : MimeTypes,
      alt : {None, Some(""), Some("a cat")} ]

\* the JSON body of the INIT response
InitBodies ==
    [ media_id_string : {None, Some("m1"), Some("")}, media_id : {None, Some(7)} ]

\* lines 56-61: const mediaId
MediaIdOf(initBody) ==
    IF initBody.media_id_string # None THEN initBody.media_id_string
    ELSE IF initBody.media_id # None THEN Some(ToString(initBody.media_id[1]))
    ELSE None

\* processing_info of a FINALIZE or STATUS body
ProcessingInfos ==
    [ state : {None, Some("pending"), Some("in_progress"), Some("failed"),
               Some("succeeded")},
      check_after_secs : {None, Some(0), Some(5)},
      error : {None} ]
    \cup [ state : {Some("failed")}, check_after_secs : {None},
           error : {Some("InvalidMedia")} ]

\* what awaiting a request of the upload gives: fetch rejecting or the body not
\* being JSON; a response that is not ok; an ok response with its body
UploadAnswers(bodies) ==
    { [kind |-> "throws"], [kind |-> "notok"] } \cup [kind : {"ok"}, body : bodies]

\* the bodies of FINALIZE and STATUS responses: with processing_info or not
ProcessingBodies == {None} \cup { Some(i) : i \in ProcessingInfos }

\* the requests
InitRequest(input, category) ==
    [ command |-> "INIT", total_bytes |-> input.byteLength,
      media_type |-> input.mimeType, media_category |-> category ]

\* lines 69-75: the chunk is data.slice(from, to)
AppendRequest(id, index, from, to) ==
    [ command |-> "APPEND", media_id |-> id, segment_index |-> index,
      from |-> from, to |-> to ]

FinalizeRequest(id) == [ command |-> "FINALIZE", media_id |-> id ]

StatusRequest(id) == [ command |-> "STATUS", media_id |-> id ]

MetadataRequest(id, alt) == [ command |-> "METADATA", media_id |-> id, alt_text |-> alt ]

\* the results
Uploaded(id) == [ success |-> TRUE, mediaId |-> id ]

UploadFailed(error) == [ success |-> FALSE, error |-> error ]

\* line 116: the delay before a STATUS request, in ms
DelayMs(inf) ==
    IF inf.check_after_secs # None
    THEN (IF inf.check_after_secs[1] > 1 THEN inf.check_after_secs[1] ELSE 1) * 1000
    ELSE 2 * 1000

UploadInit ==
    /\ PagIdle
    /\ MutIdle
    /\ ConIdle /\ CfgIdle /\ CliIdle
    /\ AuxIdleExcept("upload")
    /\ upInput \in { Some(i) : i \in UploadInputs }
    /\ upPc = "start"
    /\ mediaId = None
    /\ offset = 0
    /\ segmentIndex = 0
    /\ info = None
    /\ attempts = 0
    /\ slept = [count |-> 0, ms |-> 0]
    /\ upLog = <<>>
    /\ answered = <<>>
    /\ upResult = None

UploadFrame ==
    /\ UNCHANGED upInput
    /\ UNCHANGED pagVars
    /\ UNCHANGED mutVars
    /\ UNCHANGED <<conVars, cfgVars, cliVars>>
    /\ AuxFrameExcept("upload")

\* what the call sees of an answer: its kind, and whether its body held what
\* the call reads from it (a JSON object, processing_info)
Seen(answer) == [kind |-> answer.kind, read |-> answer.kind = "ok" /\ answer.body # None]

\* the call goes on to pcv, having sent the requests of log
UploadGoes(pcv, log) ==
    /\ upPc' = pcv
    /\ upLog' = log
    /\ UNCHANGED upResult

\* the call returns
UploadReturns(res) ==
    /\ upPc' = "done"
    /\ upResult' = Some(res)
    /\ UNCHANGED upLog

\* a response that is not ok, or an exception, at any request: lines 51-54,
\* 83-86, 97-100, 131-134, 161-164 and the catch of line 168
UploadBroken(answer) ==
    UploadReturns(UploadFailed(IF answer.kind = "notok" THEN "HTTP" ELSE "exception"))

\* lines 68-81 and 90-95: the next APPEND request if data is left from
\* position from on, the FINALIZE request if not
AppendOrFinalize(id, index, from) ==
    IF from < upInput[1].byteLength
    THEN LET end == from + ChunkSize
             to  == IF upInput[1].byteLength < end THEN upInput[1].byteLength ELSE end
         IN  UploadGoes("append", Append(upLog, AppendRequest(id, index, from, to)))
    ELSE UploadGoes("finalize", Append(upLog, FinalizeRequest(id)))

\* lines 155-167: after the polling, the alt text of an image, then success
AfterPolling ==
    IF /\ upInput[1].alt # None /\ upInput[1].alt[1] # ""
       /\ upInput[1].mimeType[1] = "image"
    THEN UploadGoes("metadata",
                    Append(upLog, MetadataRequest(mediaId[1], upInput[1].alt[1])))
    ELSE UploadReturns(Uploaded(mediaId[1]))

\* the polling loop with the test attempts <= 20
PollOrFinish_OneMore(inf, att) ==
    IF att <= MaxAttempts
    THEN IF inf.state = Some("failed")
         THEN UploadReturns(UploadFailed(IF inf.error # None THEN inf.error[1]
                                         ELSE "Media processing failed"))
         ELSE UploadGoes("sleep", upLog)
    ELSE AfterPolling

\* lines 111-117: the top of the polling loop with processing info inf and att
\* polls made
PollOrFinish(inf, att) ==
    IF att < MaxAttempts
    THEN IF inf.state = Some("failed")
         THEN UploadReturns(UploadFailed(IF inf.error # None THEN inf.error[1]
                                         ELSE "Media processing failed"))
         ELSE UploadGoes("sleep", upLog)
    ELSE AfterPolling

\* lines 31-50: an unsupported type fails at once, any other sends INIT
UploadCall ==
    /\ upPc = "start"
    /\ LET category == mediaCategoryForMime(upInput[1].mimeType)
       IN  IF category = None
           THEN UploadReturns(UploadFailed("Unsupported media type"))
           ELSE UploadGoes("init", <<InitRequest(upInput[1], category[1])>>)
    /\ UNCHANGED <<mediaId, offset, segmentIndex, info, attempts, slept, answered>>
    /\ UploadFrame

\* lines 51-81: the INIT response
InitResponds(answer) ==
    /\ upPc = "init"
    /\ answered' = Append(answered, Seen(answer))
    /\ IF answer.kind # "ok"
       THEN UploadBroken(answer) /\ UNCHANGED mediaId
       ELSE LET id == MediaIdOf(answer.body)
            IN  IF id = None \/ id = Some("")
                THEN /\ UploadReturns(UploadFailed("Media upload INIT did not return media_id"))
                     /\ UNCHANGED mediaId
                ELSE /\ mediaId' = id
                     /\ AppendOrFinalize(id[1], 0, 0)
    /\ UNCHANGED <<offset, segmentIndex, info, attempts, slept>>
    /\ UploadFrame

\* an APPEND response after which the segment index goes up by two
AppendResponds_SkipsSegment(answer) ==
    /\ upPc = "append"
    /\ answered' = Append(answered, Seen(answer))
    /\ IF answer.kind # "ok"
       THEN UploadBroken(answer) /\ UNCHANGED <<offset, segmentIndex>>
       ELSE /\ segmentIndex' = segmentIndex + 2
            /\ offset' = offset + ChunkSize
            /\ AppendOrFinalize(mediaId[1], segmentIndex + 2, offset + ChunkSize)
    /\ UNCHANGED <<mediaId, info, attempts, slept>>
    /\ UploadFrame

\* lines 83-95: an APPEND response
AppendResponds(answer) ==
    /\ upPc = "append"
    /\ answered' = Append(answered, Seen(answer))
    /\ IF answer.kind # "ok"
       THEN UploadBroken(answer) /\ UNCHANGED <<offset, segmentIndex>>
       ELSE /\ segmentIndex' = segmentIndex + 1
            /\ offset' = offset + ChunkSize
            /\ AppendOrFinalize(mediaId[1], segmentIndex + 1, offset + ChunkSize)
    /\ UNCHANGED <<mediaId, info, attempts, slept>>
    /\ UploadFrame

\* lines 97-117: the FINALIZE response
FinalizeResponds(answer) ==
    /\ upPc = "finalize"
    /\ answered' = Append(answered, Seen(answer))
    /\ IF answer.kind # "ok"
       THEN UploadBroken(answer) /\ UNCHANGED info
       ELSE /\ info' = answer.body
            /\ IF /\ answer.body # None
                  /\ answer.body[1].state # None
                  /\ answer.body[1].state # Some("succeeded")
               THEN PollOrFinish(answer.body[1], 0)
               ELSE AfterPolling
    /\ UNCHANGED <<mediaId, offset, segmentIndex, attempts, slept>>
    /\ UploadFrame

\* lines 116-129: the sleep is over and the STATUS request goes out
PollSleep ==
    /\ upPc = "sleep"
    /\ slept' = [count |-> slept.count + 1, ms |-> DelayMs(info[1])]
    /\ UploadGoes("status", Append(upLog, StatusRequest(mediaId[1])))
    /\ UNCHANGED <<mediaId, offset, segmentIndex, info, attempts, answered>>
    /\ UploadFrame

\* lines 131-153: a STATUS response
StatusResponds(answer) ==
    /\ upPc = "status"
    /\ answered' = Append(answered, Seen(answer))
    /\ IF answer.kind # "ok"
       THEN UploadBroken(answer) /\ UNCHANGED <<info, attempts>>
       ELSE IF answer.body = None
       THEN AfterPolling /\ UNCHANGED <<info, attempts>>
       ELSE /\ info' = answer.body
            /\ IF answer.body[1].state = Some("succeeded")
               THEN AfterPolling /\ UNCHANGED attempts
               ELSE /\ attempts' = attempts + 1
                    /\ PollOrFinish(answer.body[1], attempts + 1)
    /\ UNCHANGED <<mediaId, offset, segmentIndex, slept>>
    /\ UploadFrame

\* lines 161-167: the response to the alt text request
MetadataResponds(answer) ==
    /\ upPc = "metadata"
    /\ answered' = Append(answered, Seen(answer))
    /\ IF answer.kind = "notok" \/ answer.kind = "throws"
       THEN UploadBroken(answer)
       ELSE UploadReturns(Uploaded(mediaId[1]))
    /\ UNCHANGED <<mediaId, offset, segmentIndex, info, attempts, slept>>
    /\ UploadFrame

UploadInitAnswer == \E answer \in UploadAnswers(InitBodies) : InitResponds(answer)

UploadAppendAnswer == \E answer \in UploadAnswers({None}) : AppendResponds(answer)

UploadFinalizeAnswer == \E answer \in UploadAnswers(ProcessingBodies) : FinalizeResponds(answer)

UploadStatusAnswer == \E answer \in UploadAnswers(ProcessingBodies) : StatusResponds(answer)

UploadMetadataAnswer == \E answer \in UploadAnswers({None}) : MetadataResponds(answer)

UploadNext ==
    \/ UploadCall
    \/ UploadInitAnswer
    \/ UploadAppendAnswer
    \/ UploadFinalizeAnswer
    \/ PollSleep
    \/ UploadStatusAnswer
    \/ UploadMetadataAnswer

UploadSpec == UploadInit /\ [][UploadNext]_vars

\* every request that was sent is answered and every sleep ends
UploadLiveSpec == UploadSpec /\ WF_vars(UploadNext)

\* the place of a command in the order of an upload
Rank(command) ==
    CASE command = "INIT" -> 1
      [] command = "APPEND" -> 2
      [] command = "FINALIZE" -> 3
      [] command = "STATUS" -> 4
      [] command = "METADATA" -> 5

\* the positions of upLog that hold a request of the command
Sent(command) == { i \in DOMAIN upLog : upLog[i].command = command }

\* requests go out in the order INIT, APPEND, FINALIZE, STATUS, metadata:
\* one INIT first, one FINALIZE and one metadata request at most, and
\* nothing after FINALIZE without it
FixedOrder ==
    /\ upLog # <<>> => upLog[1].command = "INIT"
    /\ \A i, j \in DOMAIN upLog : i < j => Rank(upLog[i].command) <= Rank(upLog[j].command)
    /\ \A c \in {"INIT", "FINALIZE", "METADATA"} : Cardinality(Sent(c)) <= 1
    /\ Sent("STATUS") \cup Sent("METADATA") # {} => Sent("FINALIZE") # {}

\* the APPEND requests carry the segments 0, 1, 2, ..., each starting where the
\* one before ended and at most ChunkSize long; once FINALIZE is sent they
\* cover the data
SegmentsInOrder ==
    /\ \A i \in Sent("APPEND") :
           /\ upLog[i].segment_index = i - 2
           /\ upLog[i].from = (IF i = 2 THEN 0 ELSE upLog[i - 1].to)
           /\ upLog[i].from < upLog[i].to
           /\ upLog[i].to - upLog[i].from <= ChunkSize
           /\ upLog[i].to <= upInput[1].byteLength
    /\ \A i \in Sent("FINALIZE") :
           IF i = 2 THEN upInput[1].byteLength = 0
           ELSE upLog[i - 1].to = upInput[1].byteLength

\* the alt text request is sent for an image with alt text only
AltTextOnlyForImages ==
    \A i \in Sent("METADATA") :
        /\ upInput[1].mimeType[1] = "image"
        /\ upInput[1].alt = Some(upLog[i].alt_text)
        /\ upLog[i].alt_text # ""

\* the upload has ended without success
UploadHasFailed == upPc = "done" /\ upResult # None /\ ~upResult[1].success

\* every request but the last has been answered, the last one or not
AnswersFollowRequests ==
    /\ Len(answered) <= Len(upLog)
    /\ Len(upLog) <= Len(answered) + 1

\* a response that is not ok, or an INIT response without a media id, ends the
\* upload without success, and no request follows it
FailureStops ==
    /\ \A i \in DOMAIN answered :
           answered[i].kind # "ok" => i = Len(upLog) /\ UploadHasFailed
    /\ (answered # <<>> /\ mediaId = None) => Len(upLog) = 1 /\ UploadHasFailed

\* an unsupported type fails without a request
UnsupportedFailsAtOnce ==
    (upPc # "start" /\ mediaCategoryForMime(upInput[1].mimeType) = None) =>
        upLog = <<>> /\ UploadHasFailed

\* C34: uploadMedia sends INIT, the APPEND requests of segments 0, 1, 2, ...
\* (consecutive, each at most 5 MiB, covering the data once), FINALIZE, the
\* STATUS polls and then the alt text request (for an image with alt text
\* only), in this order; a response that is not ok or a missing media id ends
\* the upload with success false and no later request; an unsupported MIME
\* type fails without any request
C34_UploadRequestOrder ==
    /\ FixedOrder
    /\ SegmentsInOrder
    /\ AltTextOnlyForImages
    /\ AnswersFollowRequests
    /\ FailureStops
    /\ UnsupportedFailsAtOnce

\* an image longer than one chunk was sent in two segments, finalized, polled
\* and given its alt text
C34_Witness ==
    /\ upPc = "done"
    /\ upResult # None /\ upResult[1].success
    /\ Cardinality(Sent("APPEND")) = 2
    /\ Sent("STATUS") # {}
    /\ Sent("METADATA") # {}
    /\ upLog[Len(upLog)].command = "METADATA"

\* the last STATUS request sent
LastStatus == CHOOSE i \in Sent("STATUS") : \A j \in Sent("STATUS") : j <= i

\* what holds of the polling at every moment: at most MaxAttempts STATUS
\* requests; a sleep before each, of the seconds the server asked for but one
\* second at least, of two seconds when it named none; no poll once the state
\* is succeeded or a STATUS response came without processing info
PollingDiscipline ==
    /\ Cardinality(Sent("STATUS")) <= MaxAttempts
    /\ slept.count = Cardinality(Sent("STATUS"))
    /\ upPc = "status" =>
           /\ slept.ms >= 1000
           /\ info[1].check_after_secs = None => slept.ms = 2000
           /\ info[1].check_after_secs # None =>
                  /\ slept.ms >= info[1].check_after_secs[1] * 1000
                  /\ slept.ms = 1000 \/ slept.ms = info[1].check_after_secs[1] * 1000
    /\ (info # None /\ info[1].state = Some("succeeded")) => upPc \notin {"sleep", "status"}
    /\ \A i \in Sent("STATUS") :
           (i <= Len(answered) /\ answered[i].kind = "ok" /\ ~answered[i].read) =>
               i = LastStatus /\ upPc \notin {"sleep", "status"}

LastStateFailed == info # None /\ info[1].state = Some("failed")

\* the last poll still reported a state in which processing goes on
StillUnfinished ==
    /\ info # None
    /\ info[1].state \in {Some("pending"), Some("in_progress")}
    /\ Sent("STATUS") # {}
    /\ answered[LastStatus].read

\* C36: uploadMedia returns success true only if processing finished without
\* failure: when the last state the server reported is failed, or processing
\* is still unfinished after the final poll, the result is success false
C36_SuccessOnlyWhenProcessed ==
    (upPc = "done" /\ upResult # None /\ upResult[1].success) =>
        /\ ~LastStateFailed
        /\ ~StillUnfinished

---------------------------------------------------------------------------
(* getUserIdByUsername and getUserByScreenNameGraphQL                        *)
(* (src/src/lib/twitter-client-user-lookup.ts, lines 29-209).  An error       *)
(* message is a sequence of its parts.                                        *)

\* line 31: the UserByScreenName query ids
queryIds == << "xc8f1g7BYqr6VTzTbvNlGw", "qW5u-DAuXpMEG0zA1F7UGQ", "sLVLhk0bGj3MVFEKTdax1w" >>

\* lines 158-161: the REST endpoints
urls == << "https://x.com/i/api/1.1/users/show.json",
           "https://api.twitter.com/1.1/users/show.json" >>

\* normalizeHandle: the name without its @, or nothing
normalizeHandle(handle) == IF HandleOk(handle) THEN Some("bob") ELSE None

\* String.prototype.includes, of a part of a message
Includes(message, part) == \E i \in DOMAIN message : message[i] = part

\* the text a server may put in an error body or an error message
ServerTexts == { "Rate limit exceeded", "not found or unavailable" }

\* the answers to a UserByScreenName request: fetch rejecting; a 404; another
\* status with an error text; an ok response with the user result of its body
GraphqlAnswers ==
    { [kind |-> "throws"], [kind |-> "notok", status |-> 404, text |-> ""] }
    \cup [kind : {"notok"}, status : {500}, text : ServerTexts]
    \cup [kind : {"ok"},
          body : { [typename |-> "UserUnavailable", rest_id |-> None,
                    legacy |-> None, core |-> None, errors |-> <<>>],
                   [typename |-> "User", rest_id |-> Some("42"),
                    legacy |-> Some("Bob"), core |-> None, errors |-> <<>>],
                   [typename |-> "User", rest_id |-> Some("42"),
                    legacy |-> None, core |-> Some("bob"), errors |-> <<>>],
                   [typename |-> "User", rest_id |-> Some("42"),
                    legacy |-> None, core |-> None, errors |-> <<>>],
                   [typename |-> "User", rest_id |-> None,
                    legacy |-> None, core |-> None, errors |-> <<"Rate limit exceeded">>] }]

\* the answers to a users/show.json request
RestAnswers ==
    { [kind |-> "throws"], [kind |-> "notok", status |-> 404, text |-> ""],
      [kind |-> "notok", status |-> 500, text |-> "Rate limit exceeded"] }
    \cup [kind : {"ok"},
          body : [id_str : {None, Some("42")}, id : {None, Some(0), Some(7)},
                  screen_name : {None, Some("Bob")}]]

\* a ?? b
Coalesce(a, b) == IF a # None THEN a ELSE b

\* the results
UserFound(userId, username) == [success |-> TRUE, userId |-> userId, username |-> username]

LookupFailed(error) == [success |-> FALSE, error |-> error]

\* line 105
UnavailableError(screenName) == << "User @", screenName, " ", "not found or unavailable" >>

\* line 175
NotFoundError(cleanUsername) == << "User @", cleanUsername, " not found" >>

\* lines 70-134, one pass of the loop: what the answer to a UserByScreenName
\* request makes of the pass - a result to return, or an error to remember
GraphqlPass(answer, screenName) ==
    CASE answer.kind = "throws" -> [error |-> <<"fetch failed">>]
      [] answer.kind = "notok" ->
            IF answer.status = 404 THEN [error |-> <<"HTTP ", ToString(answer.status)>>]
            ELSE [error |-> <<"HTTP ", ToString(answer.status), ": ", answer.text>>]
      [] OTHER ->
            IF answer.body.typename = "UserUnavailable"
            THEN [return |-> LookupFailed(UnavailableError(screenName))]
            ELSE IF /\ answer.body.rest_id # None
                    /\ Coalesce(answer.body.legacy, answer.body.core) # None
            THEN [return |-> UserFound(answer.body.rest_id[1],
                                       Coalesce(answer.body.legacy, answer.body.core)[1])]
            ELSE IF answer.body.errors # <<>>
            THEN [error |-> answer.body.errors]
            ELSE [error |-> <<"Could not parse user data from response">>]

\* lines 170-203, one pass of the loop over the REST endpoints
RestPass(answer, cleanUsername) ==
    CASE answer.kind = "throws" -> [error |-> <<"fetch failed">>]
      [] answer.kind = "notok" ->
            IF answer.status = 404
            THEN [return |-> LookupFailed(NotFoundError(cleanUsername))]
            ELSE [error |-> <<"HTTP ", ToString(answer.status), ": ", answer.text>>]
      [] OTHER ->
            LET userId == IF answer.body.id_str # None THEN answer.body.id_str
                          ELSE IF answer.body.id # None /\ answer.body.id[1] # 0
                          THEN Some(ToString(answer.body.id[1]))
                          ELSE None
            IN  IF userId = None
                THEN [error |-> <<"Could not parse user ID from response">>]
                ELSE [return |-> UserFound(userId[1],
                          Coalesce(answer.body.screen_name, Some(cleanUsername))[1])]

LookupInit ==
    /\ PagIdle
    /\ MutIdle
    /\ ConIdle /\ CfgIdle /\ CliIdle
    /\ AuxIdleExcept("lookup")
    /\ lkUsername \in { Some(h) : h \in Handles }
    /\ lkPc = "start"
    /\ lkIndex = 0
    /\ lastError = None
    /\ lkLog = <<>>
    /\ lkAnswers = <<>>
    /\ lkResult = None

LookupFrame ==
    /\ UNCHANGED lkUsername
    /\ UNCHANGED pagVars
    /\ UNCHANGED mutVars
    /\ UNCHANGED <<conVars, cfgVars, cliVars>>
    /\ AuxFrameExcept("lookup")

\* the call sends the request of place index to one of the two APIs
LookupAsks(api, index) ==
    /\ lkPc' = api
    /\ lkIndex' = index
    /\ lkLog' = Append(lkLog, [api |-> api,
                               to |-> IF api = "graphql" THEN queryIds[index] ELSE urls[index]])
    /\ UNCHANGED lkResult

\* the call returns
LookupEnds(res) ==
    /\ lkPc' = "done"
    /\ lkResult' = Some(res)
    /\ UNCHANGED <<lkIndex, lkLog>>

\* lines 144-150 and 68-73: an invalid name fails; a valid one is looked up
\* with the first query id
LookupCall ==
    /\ lkPc = "start"
    /\ IF normalizeHandle(lkUsername[1]) = None
       THEN LookupEnds(LookupFailed(<<"Invalid username: ", lkUsername[1]>>))
       ELSE LookupAsks("graphql", 1)
    /\ UNCHANGED <<lastError, lkAnswers>>
    /\ LookupFrame

\* lines 150-167: the GraphQL lookup failed with error; the REST endpoints are
\* tried whatever the error says
AfterGraphql_AlwaysRest(error) ==
    LookupAsks("rest", 1)

\* lines 150-167: the GraphQL lookup failed with error; the REST endpoints are
\* tried unless the error says the user is unavailable
AfterGraphql(error) ==
    IF Includes(error, "not found or unavailable")
    THEN LookupEnds(LookupFailed(error))
    ELSE LookupAsks("rest", 1)

\* lines 75-137 and 150-172: the answer to a UserByScreenName request
GraphqlResponds(answer) ==
    /\ lkPc = "graphql"
    /\ lkAnswers' = Append(lkAnswers, answer)
    /\ LET pass == GraphqlPass(answer, normalizeHandle(lkUsername[1])[1])
       IN  IF "return" \in DOMAIN pass
           THEN /\ UNCHANGED lastError
                /\ IF pass.return.success
                   THEN LookupEnds(pass.return)
                   ELSE AfterGraphql(pass.return.error)
           ELSE /\ lastError' = Some(pass.error)
                /\ IF lkIndex < Len(queryIds)
                   THEN LookupAsks("graphql", lkIndex + 1)
                   ELSE AfterGraphql(pass.error)
    /\ LookupFrame

\* lines 174-208: the answer to a users/show.json request
RestResponds(answer) ==
    /\ lkPc = "rest"
    /\ lkAnswers' = Append(lkAnswers, answer)
    /\ LET pass == RestPass(answer, normalizeHandle(lkUsername[1])[1])
       IN  IF "return" \in DOMAIN pass
           THEN LookupEnds(pass.return) /\ UNCHANGED lastError
           ELSE /\ lastError' = Some(pass.error)
                /\ IF lkIndex < Len(urls)
                   THEN LookupAsks("rest", lkIndex + 1)
                   ELSE LookupEnds(LookupFailed(pass.error))
    /\ LookupFrame

LookupGraphqlAnswer == \E answer \in GraphqlAnswers : GraphqlResponds(answer)

LookupRestAnswer == \E answer \in RestAnswers : RestResponds(answer)

LookupNext == LookupCall \/ LookupGraphqlAnswer \/ LookupRestAnswer

LookupSpec == LookupInit /\ [][LookupNext]_vars

\* the answer to the request at place i names a user
UsableAnswer(i) ==
    LET a == lkAnswers[i]
    IN  /\ a.kind = "ok"
        /\ IF lkLog[i].api = "graphql"
           THEN /\ a.body.typename # "UserUnavailable"
                /\ a.body.rest_id # None
                /\ a.body.legacy # None \/ a.body.core # None
           ELSE \/ a.body.id_str # None
                \/ a.body.id # None /\ a.body.id[1] # 0

\* the GraphQL answer at place i reports the user as unavailable
UnavailableAnswer(i) ==
    /\ lkLog[i].api = "graphql"
    /\ lkAnswers[i].kind = "ok"
    /\ lkAnswers[i].body.typename = "UserUnavailable"

\* the REST answer at place i is a 404
RestNotFound(i) ==
    /\ lkLog[i].api = "rest"
    /\ lkAnswers[i].kind = "notok"
    /\ lkAnswers[i].status = 404

\* the lookup ended with the answer at place i: no request followed it
EndedAt(i) == i = Len(lkLog) /\ lkPc = "done" /\ lkResult # None

\* C37: getUserIdByUsername tries the UserByScreenName query ids in order and
\* stops at the first usable result; it goes on to the REST endpoints only
\* when every GraphQL attempt failed, and never when GraphQL reported the user
\* unavailable; a REST 404 ends the lookup as not found without the second
\* REST url being tried; an invalid username fails without any request; no
\* lookup sends more than 3 GraphQL and 2 REST requests
C37_LookupOrder ==
    /\ Len(lkLog) <= Len(queryIds) + Len(urls)
    /\ Len(lkAnswers) <= Len(lkLog) /\ Len(lkLog) <= Len(lkAnswers) + 1
    /\ \A i \in DOMAIN lkLog :
           IF i <= Len(queryIds)
           THEN lkLog[i] = [api |-> "graphql", to |-> queryIds[i]]
           ELSE lkLog[i] = [api |-> "rest", to |-> urls[i - Len(queryIds)]]
    /\ \A i \in DOMAIN lkAnswers :
           /\ UsableAnswer(i) => EndedAt(i) /\ lkResult[1].success
           /\ UnavailableAnswer(i) => EndedAt(i) /\ ~lkResult[1].success
           /\ RestNotFound(i) =>
                  /\ EndedAt(i)
                  /\ lkResult[1] = LookupFailed(NotFoundError(normalizeHandle(lkUsername[1])[1]))
    /\ Len(lkLog) > Len(queryIds) =>
           \A i \in 1..Len(queryIds) : ~UsableAnswer(i) /\ ~UnavailableAnswer(i)
    /\ (lkPc # "start" /\ normalizeHandle(lkUsername[1]) = None) =>
           /\ lkLog = <<>>
           /\ lkPc = "done" /\ ~lkResult[1].success

\* three failed GraphQL attempts were followed by a REST 404, which ended the
\* lookup
C37_Witness ==
    /\ Len(lkLog) = Len(queryIds) + 1
    /\ Len(lkAnswers) = Len(lkLog)
    /\ RestNotFound(Len(lkLog))
    /\ lkPc = "done"


\* ---------------------------------------------------------------------------
\* replies and thread: partial results
\* ---------------------------------------------------------------------------

\* a replies or thread command whose client call has resolved to a failure that
\* still carries tweets
PartialFailure ==
    /\ cmdName \in ReadCommands
    /\ callResult # None
    /\ ~callResult[1].success
    /\ callResult[1].tweets # None

\* C38: when the client call of replies or thread resolves to a failure that
\* still carries tweets, the command prints those tweets first, then (not in
\* JSON mode, when the result names a cursor) the hint with that cursor, and
\* only then the error, and it exits with code 1.
C38_PartialTweetsBeforeError ==
    PartialFailure =>
        LET res == callResult[1]
        IN  /\ cliPc = "exited"
            /\ exitCode = Some(1)
            /\ printed =
                   <<TweetsPrinted(res, cmdJson)>>
                   \o (IF res.nextCursor # None /\ ~cmdJson
                       THEN <<HintPrinted(res.nextCursor[1])>> ELSE <<>>)
                   \o <<ErrorPrinted(res.error[1])>>

\* a paginated thread command failed after two tweets: tweets, hint and error
\* were printed in this order
C38_Witness ==
    /\ PartialFailure
    /\ cmdName = "thread"
    /\ pagination[1].usePagination
    /\ ~cmdJson
    /\ callResult[1].tweets = Some(<<"t1", "t2">>)
    /\ Len(printed) = 3
    /\ printed[2] = HintPrinted("c9")
    /\ exitCode = Some(1)

---------------------------------------------------------------------------
(* paginateCursor : a limited call, resumed, beside one unlimited call *)

\* the cursors fetchPage can be called with: none, or one a page named
ServerCursors == {None, Some("c1"), Some("c2")}

\* what a page of the server holds: nothing, one item, or two items of which
\* one bears the key of the other choice
ServerItems ==
    { <<>>, <<[id |-> "a", v |-> 1]>>, <<[id |-> "a", v |-> 2], [id |-> "b", v |-> 1]>> }

\* a server that answers each cursor with one fixed successful page
Servers ==
    [ServerCursors -> [success : {TRUE}, items : ServerItems, cursor : OptCursors]]

\* a call that fetches a cursor a second time goes on for ever: no call that
\* ends fetches more pages than the server has cursors
ResumeFetches == Cardinality(ServerCursors)

\* maxPages of the limited call
ResumeLimits == 0..ResumeFetches

\* lines 210-213: the locals of a call starting at cursor start
NewCall(start) ==
    [ pc |-> "fetch", seen |-> {}, items |-> <<>>, cursor |-> start,
      pagesFetched |-> 0, sleeps |-> 0, requested |-> <<>>, result |-> None ]

\* a call that was not made
NoCall == [NewCall(None) EXCEPT !.pc = "none"]

\* lines 215-248 returning, at the page limit, the cursor it has just fetched
LoopBody_ReturnsFetchedCursor(call, page, limit) ==
    LET acc     == Accumulate(call.seen, call.items, page.items)
        fetched == call.pagesFetched + 1
        after   == [call EXCEPT !.seen = acc.seen, !.items = acc.items,
                                !.pagesFetched = fetched,
                                !.sleeps = IF call.pagesFetched > 0 THEN @ + 1 ELSE @,
                                !.requested = Append(@, call.cursor)]
    IN  IF Exhausted(page.cursor, call.cursor)
        THEN [after EXCEPT !.pc = "done",
                           !.result = Some([success |-> TRUE, items |-> acc.items,
                                            nextCursor |-> None])]
        ELSE IF LimitReached(limit, fetched)
        THEN [after EXCEPT !.pc = "done",
                           !.result = Some([success |-> TRUE, items |-> acc.items,
                                            nextCursor |-> call.cursor])]
        ELSE [after EXCEPT !.cursor = page.cursor]

\* lines 215-248: one turn of the loop of a call, the page fetched being a
\* successful one: the sleep between pages, the fetch, the accumulation and
\* the two tests that end the call
LoopBody(call, page, limit) ==
    LET acc     == Accumulate(call.seen, call.items, page.items)
        fetched == call.pagesFetched + 1
        after   == [call EXCEPT !.seen = acc.seen, !.items = acc.items,
                                !.pagesFetched = fetched,
                                !.sleeps = IF call.pagesFetched > 0 THEN @ + 1 ELSE @,
                                !.requested = Append(@, call.cursor)]
    IN  IF Exhausted(page.cursor, call.cursor)
        THEN [after EXCEPT !.pc = "done",
                           !.result = Some([success |-> TRUE, items |-> acc.items,
                                            nextCursor |-> None])]
        ELSE IF LimitReached(limit, fetched)
        THEN [after EXCEPT !.pc = "done",
                           !.result = Some([success |-> TRUE, items |-> acc.items,
                                            nextCursor |-> page.cursor])]
        ELSE [after EXCEPT !.cursor = page.cursor]

\* the call can fetch one more page
CanFetch(call) == call.pc = "fetch" /\ Len(call.requested) < ResumeFetches

\* the unlimited call and the limited one start at the same cursor against the
\* same server; the second call waits for the limited one to return
ResumeInit ==
    /\ PagIdle
    /\ MutIdle
    /\ ConIdle /\ CfgIdle /\ CliIdle
    /\ AuxIdleExcept("resume")
    /\ rsServer \in Servers
    /\ rsLimit \in { Some(k) : k \in ResumeLimits }
    /\ \E start \in StartCursors :
          rsRuns = [ whole |-> NewCall(start), first |-> NewCall(start),
                     second |-> NoCall ]

ResumeFrame ==
    /\ UNCHANGED <<rsServer, rsLimit>>
    /\ UNCHANGED pagVars
    /\ UNCHANGED mutVars
    /\ UNCHANGED <<conVars, cfgVars, cliVars>>
    /\ AuxFrameExcept("resume")

\* the call without a limit fetches a page
WholeFetch ==
    /\ CanFetch(rsRuns.whole)
    /\ rsRuns' = [rsRuns EXCEPT
                    !.whole = LoopBody(@, rsServer[@.cursor], None)]
    /\ ResumeFrame

\* the call with the limit fetches a page
FirstFetch ==
    /\ ~CanFetch(rsRuns.whole)
    /\ CanFetch(rsRuns.first)
    /\ rsRuns' = [rsRuns EXCEPT
                    !.first = LoopBody(@, rsServer[@.cursor], rsLimit)]
    /\ ResumeFrame

\* the limited call has returned a nextCursor: a second call, without a limit,
\* starts from it
SecondCall ==
    /\ rsRuns.first.pc = "done"
    /\ rsRuns.first.result[1].nextCursor # None
    /\ rsRuns.second.pc = "none"
    /\ rsRuns' = [rsRuns EXCEPT
                    !.second = NewCall(rsRuns.first.result[1].nextCursor)]
    /\ ResumeFrame

\* the second call fetches a page
SecondFetch ==
    /\ CanFetch(rsRuns.second)
    /\ rsRuns' = [rsRuns EXCEPT
                    !.second = LoopBody(@, rsServer[@.cursor], None)]
    /\ ResumeFrame

ResumeNext == WholeFetch \/ FirstFetch \/ SecondCall \/ SecondFetch

ResumeSpec == ResumeInit /\ [][ResumeNext]_vars

\* ---------------------------------------------------------------------------
\* resuming a limited call
\* ---------------------------------------------------------------------------

\* the keys of the items a call returned
ReturnedKeys(call) ==
    { getKey(call.result[1].items[i]) : i \in DOMAIN call.result[1].items }

\* the limited call has returned, and the second call, if the first one named
\* a cursor to go on from, has returned too
Resumed ==
    /\ rsRuns # <<>>
    /\ rsRuns.first.pc = "done"
    /\ IF rsRuns.first.result[1].nextCursor = None
       THEN rsRuns.second.pc = "none"
       ELSE rsRuns.second.pc = "done"

IsPrefix(s, t) == Len(s) <= Len(t) /\ SubSeq(t, 1, Len(s)) = s

\* C39: against a server that answers each cursor with a fixed page, the
\* cursors requested by a call with page limit k followed by those of a second
\* call started from the nextCursor it returned are the cursors one unlimited
\* call requests, in the same order (as far as each has got, a call that goes
\* round a cycle of cursors never returning); once the calls have returned, the
\* two sequences are equal and the item keys of the two calls together are the
\* item keys of the unlimited call.
C39_ResumeEquivalence ==
    rsRuns # <<>> =>
        LET whole  == rsRuns.whole
            resumed == rsRuns.first.requested \o rsRuns.second.requested
        IN  /\ IsPrefix(resumed, whole.requested) \/ IsPrefix(whole.requested, resumed)
            /\ Resumed =>
                  /\ whole.pc = "done"
                  /\ resumed = whole.requested
                  /\ ReturnedKeys(rsRuns.first)
                       \cup (IF rsRuns.second.pc = "done"
                             THEN ReturnedKeys(rsRuns.second) ELSE {})
                     = ReturnedKeys(whole)

\* a call limited to one page was resumed, the second call fetched two more
\* pages, and the second call brought a key the first had not
C39_Witness ==
    /\ Resumed
    /\ rsLimit = Some(1)
    /\ rsRuns.second.pc = "done"
    /\ Len(rsRuns.second.requested) = 2
    /\ Len(rsRuns.whole.requested) = 3
    /\ ReturnedKeys(rsRuns.second) \ ReturnedKeys(rsRuns.first) # {}

---------------------------------------------------------------------------
(* commands/bookmarks.ts : the expansion of bookmarks into threads *)

\* at most this many bookmarks are expanded in one run
MaxBookmarks == 3

\* the ids of the bookmarks, in the order of result.tweets
BookmarkIds == <<"b1", "b2", "b3", "b4">>

\* conversationId of a bookmark: none, the first bookmark's own id (it is the
\* root of its thread), or a conversation none of the bookmarks is the root of
ConversationIds == {None, Some("b1"), Some("c9")}

\* inReplyToStatusId of a bookmark
ParentIds == {None, Some("p1")}

\* result.tweets of the bookmarks call: one to MaxBookmarks tweets
BookmarkLists ==
    UNION { { [i \in 1..n |-> [id |-> BookmarkIds[i],
                               conversationId |-> convs[i],
                               inReplyToStatusId |-> parents[i]]] :
                convs \in [1..n -> ConversationIds], parents \in [1..n -> ParentIds] } :
            n \in 1..MaxBookmarks }

\* expandRootOnly; filterAuthorChainFlag || filterAuthorOnlyFlag ||
\* filterFullChainFlag; includeMeta
ExpandFlags == [expandRootOnly : BOOLEAN, filter : BOOLEAN, includeMeta : BOOLEAN]

\* lines 129-130
shouldAttemptExpand(flags) == flags.expandRootOnly \/ flags.filter

\* line 131
shouldFetchThread(flags) == shouldAttemptExpand(flags) \/ flags.includeMeta

\* line 161
isRoot(bookmark) == bookmark.inReplyToStatusId = None

\* line 134: tweet.conversationId ?? tweet.id
cachedKey(tweet) ==
    IF tweet.conversationId # None THEN tweet.conversationId[1] ELSE tweet.id

\* line 152 with the thread filed under the id of the bookmark
rootKey_TweetId(tweets, tweet) == tweet.id

\* line 152: threadResult.tweets[0]?.conversationId ?? cachedKey
rootKey(tweets, tweet) ==
    IF tweets # <<>> /\ tweets[1].conversationId # None
    THEN tweets[1].conversationId[1]
    ELSE cachedKey(tweet)

\* threadCache.get(key): the thread filed under key, if any
CacheGet(cache, key) ==
    IF \E e \in cache : e.key = key
    THEN Some((CHOOSE e \in cache : e.key = key).tweets)
    ELSE None

\* threadCache.set(key, tweets)
CacheSet(cache, key, tweets) ==
    { e \in cache : e.key # key } \cup {[key |-> key, tweets |-> tweets]}

\* what client.getThread(tweet.id) resolves to: a failure, or the tweets of the
\* conversation the tweet belongs to, which may be none; every fetched tweet
\* bears the id of its conversation
ThreadAnswers(tweet) ==
    { [success |-> FALSE, error |-> "HTTP 429"],
      [success |-> TRUE, tweets |-> <<>>],
      [success |-> TRUE,
       tweets |-> << [id |-> cachedKey(tweet),
                      conversationId |-> Some(cachedKey(tweet)),
                      inReplyToStatusId |-> None],
                     [id |-> "r1",
                      conversationId |-> Some(cachedKey(tweet)),
                      inReplyToStatusId |-> Some(cachedKey(tweet))] >>] }

\* line 157
delayBetweenExpansionsMs == 1000

\* lines 95-131: the bookmarks are there and not empty, the cache is new
ExpandInit ==
    /\ PagIdle
    /\ MutIdle
    /\ ConIdle /\ CfgIdle /\ CliIdle
    /\ AuxIdleExcept("expand")
    /\ bookmarks \in BookmarkLists
    /\ expandFlags \in { Some(f) : f \in ExpandFlags }
    /\ bmIndex = 0
    /\ bmPc = "loop"
    /\ threadCache = {}
    /\ threadCalls = <<>>
    /\ expanded = <<>>

ExpandFrame ==
    /\ UNCHANGED <<bookmarks, expandFlags>>
    /\ UNCHANGED pagVars
    /\ UNCHANGED mutVars
    /\ UNCHANGED <<conVars, cfgVars, cliVars>>
    /\ AuxFrameExcept("expand")

\* lines 174-206 and the turn of the loop: the bookmark is put out with the
\* thread tweets it got from source, and the loop goes on or ends
Expanded(source, delay) ==
    /\ expanded' = Append(expanded, [bookmark |-> bookmarks[bmIndex + 1].id,
                                     source |-> source,
                                     slept |-> delay])
    /\ bmIndex' = bmIndex + 1
    /\ bmPc' = IF bmIndex + 1 < Len(bookmarks) THEN "loop" ELSE "done"

\* lines 166-168: the pause before every thread lookup but the first bookmark's
ExpansionDelay == IF bmIndex > 0 THEN delayBetweenExpansionsMs ELSE 0

\* lines 159-171 and 133-138: a turn of the loop up to the getThread call, or
\* to its end when there is no call to make
ExpandBookmark ==
    /\ bmPc = "loop"
    /\ LET bookmark == bookmarks[bmIndex + 1]
           flags    == expandFlags[1]
       IN  IF shouldFetchThread(flags)
              /\ (~flags.expandRootOnly \/ isRoot(bookmark) \/ flags.includeMeta)
           THEN IF CacheGet(threadCache, cachedKey(bookmark)) # None
                THEN /\ Expanded("cache", ExpansionDelay)
                     /\ UNCHANGED <<threadCache, threadCalls>>
                ELSE /\ bmPc' = "thread"
                     /\ threadCalls' =
                            Append(threadCalls, [tweet |-> bookmark.id,
                                                 key |-> cachedKey(bookmark),
                                                 slept |-> ExpansionDelay,
                                                 success |-> None])
                     /\ UNCHANGED <<bmIndex, threadCache, expanded>>
           ELSE /\ Expanded("none", 0)
                /\ UNCHANGED <<threadCache, threadCalls>>
    /\ ExpandFrame

\* lines 140-154 and 174-206: getThread resolves
ThreadResponds(answer) ==
    /\ bmPc = "thread"
    /\ LET bookmark == bookmarks[bmIndex + 1]
           call     == threadCalls[Len(threadCalls)]
       IN  /\ threadCalls' = [threadCalls EXCEPT
                                ![Len(threadCalls)].success = Some(answer.success)]
           /\ IF ~answer.success
              THEN /\ Expanded("failed", call.slept)
                   /\ UNCHANGED threadCache
              ELSE /\ threadCache' =
                          CacheSet(threadCache, rootKey(answer.tweets, bookmark),
                                   answer.tweets)
                   /\ Expanded("getThread", call.slept)
    /\ ExpandFrame

ThreadAnswer ==
    /\ bmPc = "thread"
    /\ \E answer \in ThreadAnswers(bookmarks[bmIndex + 1]) : ThreadResponds(answer)

ExpandNext == ExpandBookmark \/ ThreadAnswer

ExpandSpec == ExpandInit /\ [][ExpandNext]_vars

\* ---------------------------------------------------------------------------
\* bookmark expansion: the thread cache
\* ---------------------------------------------------------------------------

\* the conversationId of the bookmark a getThread call was made for
ConversationOf(call) ==
    (CHOOSE b \in { bookmarks[i] : i \in DOMAIN bookmarks } : b.id = call.tweet)
        .conversationId

\* the i-th getThread call succeeded
ThreadFetched(i) == threadCalls[i].success = Some(TRUE)

===========================================================================
